---- MODULE Spec2Model ----
(***************************************************************************)
(* Ledger consistency model of karinas-bookkeeping-service: the Postgres   *)
(* schema (bank_accounts, categories, transactions with their foreign keys *)
(* and row level security), the query functions that write to it and the   *)
(* API route handlers that call them.                                      *)
(*                                                                         *)
(* Amounts are numeric(12,2) values counted in whole cents.  Ids are the   *)
(* identity columns: positive, issued in increasing order, never reused.   *)
(***************************************************************************)
EXTENDS Integers, Sequences, FiniteSets, TLC

\* ------------------------------------------------------------------ bounds
\* Largest transaction id the identity column issues in a run.
MaxTxns == 2
\* Largest number of candidates in one import request.
MaxBatch == 2
\* Largest number of categories created through POST /api/categories.
MaxCustom == 2
\* Largest number of accounts created through POST /api/bank-accounts.
MaxAccounts == 2
\* Largest number of rows in an uploaded file.
MaxRows == 2

\* --------------------------------------------------------------- constants
\* null / absent / falsy request field (ids start at 1).
NULL == 0

\* Users u1 and u2 own rows of the store.
\* Users who send requests in the ledger specification.
Callers == {"u1"}
\* Users who open the dashboard in the seeding specification.
Owners == {"u1", "u2"}

Dates == {1}
Amounts == {-1, 0, 1}
Descriptions == {"Move funds"}

VARIABLES
  bank_accounts,   \* table public.bank_accounts
  categories,      \* table public.categories
  transactions,    \* table public.transactions
  nextTxnId,       \* identity sequence of transactions.id
  nextCatId,       \* identity sequence of categories.id
  xfer,            \* the createTransferTransaction call in flight
  bulk,            \* the POST /api/transactions/bulk request in flight
  ensure,          \* the ensureDefaultCategories calls in flight
  observed,        \* rows the last getTransactions call returned, by id
  resp,            \* the last response sent to a caller
  nextAccId,       \* identity sequence of bank_accounts.id
  tz,              \* hours the browser's local time is ahead of UTC
  file,            \* the rows of the file handed to parseCSV last
  result,          \* the ParseResult of that call
  pendingTransactions,  \* sessionStorage item "pendingTransactions"
  editedTransactions,   \* state of CategorizationTable
  selectedRows,         \* state of CategorizationTable (positions from 1)
  isImporting,          \* state of CategorizationTable
  body,            \* the transactions of the import request being served
  users,           \* table auth.users, by id
  state,           \* StoreState of the store of useInfiniteTransactions
  requests,        \* the GET /api/transactions requests in flight
  channels,        \* the subscribed channels "transactions-changes"
  realtimeChannelRef,   \* ref of TransactionsPageClient
  skipRealtimeRef,      \* ref of TransactionsPageClient
  timers,          \* the setTimeout(..., 2000) callbacks due, oldest first
  events,          \* channels with a postgres_changes payload on its way
  replicated,      \* table transactions as the realtime service saw it last
  mutation         \* the write of the transaction table in flight

\* The browser side: upload form and categorization page.
page == <<tz, file, result, pendingTransactions, editedTransactions,
          selectedRows, isImporting>>

\* The transactions page, its list store and its realtime feed.
view == <<state, requests, channels, realtimeChannelRef, skipRealtimeRef,
          timers, events, replicated, mutation>>

vars == <<bank_accounts, categories, transactions, nextTxnId, nextCatId,
          xfer, bulk, ensure, observed, resp, nextAccId, page, view, users, body>>

\* ------------------------------------------------------------ table helpers
AccountIds == {a.id : a \in bank_accounts}
CategoryIds == {c.id : c \in categories}
TxnIds == {t.id : t \in transactions}

Account(id) == CHOOSE a \in bank_accounts : a.id = id
Category(id) == CHOOSE c \in categories : c.id = id

Abs(n) == IF n < 0 THEN -n ELSE n

RECURSIVE SumAmounts(_)
SumAmounts(rows) ==
  IF rows = {} THEN 0
  ELSE LET r == CHOOSE r \in rows : TRUE
       IN r.amount + SumAmounts(rows \ {r})

\* create policy ... using ((select auth.uid()) = user_id): the rows of a
\* table a caller's statements can see, update and delete.
Visible(rows, u) == {r \in rows : r.user_id = u}

\* The foreign keys and the insert/update policy of public.transactions.
\* Foreign key checks are not subject to row level security: the referenced
\* row has to exist, whoever owns it.
TransactionRowAccepted(u, row) ==
  /\ row.user_id = u
  /\ row.bank_account_id \in AccountIds
  /\ row.category_id \in CategoryIds
  /\ row.transfer_to_account_id \in AccountIds \cup {NULL}

NewRow(u, b, d, amt, desc, c, to) ==
  [id |-> nextTxnId, user_id |-> u, bank_account_id |-> b, date |-> d,
   amount |-> amt, description |-> desc, category_id |-> c,
   transfer_to_account_id |-> to]

\* ------------------------------------------------------------------- reads
\* select coalesce(sum(amount), 0) from transactions where bank_account_id = account_id
\* (security invoker: over the rows the caller can see).
calculate_account_balance(u, account_id) ==
  SumAmounts({t \in Visible(transactions, u) : t.bank_account_id = account_id})

\* getBankAccountWithBalance: the rpc's value, or 0 when the rpc reports an error.
getBankAccountWithBalance(u, id, rpcError) ==
  IF rpcError THEN 0
  ELSE LET data == calculate_account_balance(u, id)
       IN IF data = 0 THEN 0 ELSE data

XferIdle == [pc |-> "idle"]
BulkIdle == [pc |-> "idle"]
EnsureIdle == [pc |-> "idle"]
\* Dashboard requests that may be running ensureDefaultCategories.
EnsureCalls == {1, 2}

Resp(op, status) == [op |-> op, status |-> status]

\* Request fields: NULL is a missing field; accounts 1 and 2 and categories
\* 1 and 2 are the caller's, account 3 and category 3 another user's.
AccountInputs == 0..3
CategoryInputs == 0..3
TxnIdInputs == 1..MaxTxns
\* parent_id of a new category: none, or one of the first categories.
ParentInputs == 0..2
\* The ledger specification leaves the caller's second account aside.
LedgerAccounts == {0, 1, 3}

\* Transaction ids the transfer in flight has still to draw.
Reserved ==
  IF xfer.pc = "insert_outgoing" THEN 2
  ELSE IF xfer.pc = "insert_incoming" THEN 1 ELSE 0

IdsLeft(n) == nextTxnId + Reserved + n - 1 <= MaxTxns

\* ------------------------------------------------------------------- Init
\* No file chosen, nothing staged, no import under way.
InitPage ==
  /\ file = <<>>
  /\ result = [transactions |-> <<>>, errors |-> <<>>]
  /\ pendingTransactions = <<>>
  /\ editedTransactions = <<>>
  /\ selectedRows = {}
  /\ isImporting = FALSE
  /\ body = <<>>

\* const initialState: StoreState.
initialState ==
  [data |-> <<>>, count |-> 0, isSuccess |-> FALSE, isLoading |-> FALSE,
   isFetching |-> FALSE, error |-> FALSE, hasInitialFetch |-> FALSE,
   hasMore |-> TRUE]

MutationIdle == [pc |-> "idle"]

\* The transactions page is not open: no request, no channel, no timer.
InitView ==
  /\ state = initialState
  /\ requests = <<>>
  /\ channels = {}
  /\ realtimeChannelRef = NULL
  /\ skipRealtimeRef = FALSE
  /\ timers = <<>>
  /\ events = {}
  /\ replicated = {}
  /\ mutation = MutationIdle

\* u1 has created accounts A1 and A2 and deleted the category "Transfer to A1";
\* u2 has created account A3 and deleted "Transfer to A3".  No transaction yet.
InitStore ==
  /\ bank_accounts = {[id |-> 1, user_id |-> "u1", name |-> "A1"],
                      [id |-> 2, user_id |-> "u1", name |-> "A2"],
                      [id |-> 3, user_id |-> "u2", name |-> "A3"]}
  /\ categories = {[id |-> 1, user_id |-> "u1", name |-> "Transfers",
                    parent_id |-> NULL, is_transfer_category |-> FALSE],
                   [id |-> 2, user_id |-> "u1", name |-> "Transfer to A2",
                    parent_id |-> 1, is_transfer_category |-> TRUE],
                   [id |-> 3, user_id |-> "u2", name |-> "Transfers",
                    parent_id |-> NULL, is_transfer_category |-> FALSE]}
  /\ transactions = {}
  /\ nextTxnId = 1
  /\ nextCatId = 4
  /\ nextAccId = 4
  /\ InitPage
  /\ InitView
  /\ users = Owners
  /\ xfer = XferIdle
  /\ bulk = BulkIdle
  /\ ensure = [s \in EnsureCalls |-> EnsureIdle]
  /\ observed = {}
  /\ resp = Resp("none", 0)

InitLedger == InitStore /\ tz = 0

\* ------------------------------------------------------- createTransaction
\* insert into transactions ... .select().single(); an error is thrown on.
createTransactionOk(u, b, d, amt, desc, c, to) ==
  TransactionRowAccepted(u, NewRow(u, b, d, amt, desc, c, to))

createTransaction(u, b, d, amt, desc, c, to) ==
  IF createTransactionOk(u, b, d, amt, desc, c, to)
  THEN /\ transactions' = transactions \cup {NewRow(u, b, d, amt, desc, c, to)}
       /\ nextTxnId' = nextTxnId + 1
  ELSE UNCHANGED <<transactions, nextTxnId>>

\* "Validate required fields" of POST and PUT /api/transactions: amount is
\* only compared with undefined, so 0 passes.
MissingRequiredFields(b, d, desc, c) ==
  b = NULL \/ d = NULL \/ desc = "" \/ c = NULL

\* --------------------------------------------- createTransferTransaction
\* The call in flight: two inserts and, when the second fails, a delete.
XferCall(caller, u, from, to, d, amt, desc, c) ==
  [pc |-> "insert_outgoing", caller |-> caller, user |-> u, from |-> from,
   to |-> to, date |-> d, amount |-> amt, description |-> desc,
   category |-> c, outgoing |-> NULL]

\* What the caller of createTransferTransaction does with its outcome:
\* POST /api/transactions answers 201 or 500, the import loop counts it.
XferReturn(ok, failed, outgoing, incoming) ==
  /\ xfer' = XferIdle
  /\ IF xfer.caller = "bulk"
     THEN /\ bulk' = [bulk EXCEPT !.pc = "loop",
                                  !.remaining = @ - 1,
                                  !.imported = IF ok THEN @ + 2 ELSE @,
                                  !.errors = IF ok THEN @ ELSE @ + 1]
          /\ UNCHANGED resp
     ELSE /\ resp' = [op |-> "POST_transfer",
                      status |-> IF ok THEN 201 ELSE 500,
                      failed |-> failed, outgoing |-> outgoing,
                      incoming |-> incoming, from |-> xfer.from, to |-> xfer.to,
                      amount |-> xfer.amount]
          /\ UNCHANGED bulk

\* insert of the outgoing half: amount -Math.abs(amount).
OutgoingRow ==
  NewRow(xfer.user, xfer.from, xfer.date, -Abs(xfer.amount), xfer.description,
         xfer.category, xfer.to)

\* insert of the incoming half: amount Math.abs(amount).
IncomingRow ==
  NewRow(xfer.user, xfer.to, xfer.date, Abs(xfer.amount),
         "Transfer from " \o xfer.description, xfer.category, xfer.from)

\* storeError: the store call itself fails (the request does not reach the
\* database), whatever the row.
XferInsertOutgoing(storeError) ==
  /\ xfer.pc = "insert_outgoing"
  /\ IF ~storeError /\ TransactionRowAccepted(xfer.user, OutgoingRow)
     THEN /\ transactions' = transactions \cup {OutgoingRow}
          /\ nextTxnId' = nextTxnId + 1
          /\ xfer' = [xfer EXCEPT !.pc = "insert_incoming", !.outgoing = nextTxnId]
          /\ UNCHANGED <<bulk, resp>>
     ELSE /\ XferReturn(FALSE, "outgoing", NULL, NULL)
          /\ UNCHANGED <<transactions, nextTxnId>>
  /\ UNCHANGED <<bank_accounts, nextAccId, page, view, users, body, categories, nextCatId, ensure, observed>>

XferInsertIncoming(storeError) ==
  /\ xfer.pc = "insert_incoming"
  /\ IF ~storeError /\ TransactionRowAccepted(xfer.user, IncomingRow)
     THEN /\ transactions' = transactions \cup {IncomingRow}
          /\ nextTxnId' = nextTxnId + 1
          /\ XferReturn(TRUE, "none", xfer.outgoing, nextTxnId)
     ELSE /\ xfer' = [xfer EXCEPT !.pc = "rollback"]
          /\ UNCHANGED <<transactions, nextTxnId, bulk, resp>>
  /\ UNCHANGED <<bank_accounts, nextAccId, page, view, users, body, categories, nextCatId, ensure, observed>>

\* "Rollback outgoing transaction if incoming fails": the delete is awaited,
\* its result is not looked at, and the error of the incoming insert is thrown.
XferRollback(storeError) ==
  /\ xfer.pc = "rollback"
  /\ transactions' =
       IF storeError THEN transactions
       ELSE {t \in transactions :
               ~(t.id = xfer.outgoing /\ t.user_id = xfer.user)}
  /\ XferReturn(FALSE, "incoming", xfer.outgoing, NULL)
  /\ UNCHANGED <<bank_accounts, nextAccId, page, view, users, body, categories, nextTxnId, nextCatId, ensure, observed>>

\* ------------------------------------------------- POST /api/transactions
POST(u, b, d, amt, desc, c, to) ==
  /\ IF MissingRequiredFields(b, d, desc, c)
     THEN /\ resp' = Resp("POST", 400)
          /\ UNCHANGED <<transactions, nextTxnId, xfer>>
     ELSE IF to # NULL
     THEN /\ xfer.pc = "idle"
          /\ IdsLeft(2)
          /\ xfer' = XferCall("post", u, b, to, d, amt, desc, c)
          /\ UNCHANGED <<transactions, nextTxnId, resp>>
     ELSE /\ IdsLeft(1)
          /\ createTransaction(u, b, d, amt, desc, c, NULL)
          /\ resp' = [op |-> "POST",
                      status |-> IF createTransactionOk(u, b, d, amt, desc, c, NULL)
                                 THEN 201 ELSE 500,
                      id |-> nextTxnId, amount |-> amt]
          /\ UNCHANGED xfer
  /\ UNCHANGED <<bank_accounts, nextAccId, page, view, users, body, categories, nextCatId, bulk, ensure, observed>>

\* ---------------------------------------- PUT /api/transactions/[id]
\* updateTransaction: update ... .eq("id", id).select().single().  The update
\* policy lets the caller reach only their own rows; no row updated makes
\* .single() report an error; a foreign key failure updates nothing.
PUT(u, id, b, d, amt, desc, c, to) ==
  LET old == Visible({t \in transactions : t.id = id}, u)
      new(t) == [t EXCEPT !.bank_account_id = b, !.date = d, !.amount = amt,
                          !.description = desc, !.category_id = c,
                          !.transfer_to_account_id = to]
      ok == old # {} /\ \A t \in old : TransactionRowAccepted(u, new(t))
  IN /\ IF MissingRequiredFields(b, d, desc, c)
        THEN /\ resp' = Resp("PUT", 400)
             /\ UNCHANGED transactions
        ELSE /\ transactions' =
                  IF ok THEN (transactions \ old) \cup {new(t) : t \in old}
                  ELSE transactions
             /\ resp' = Resp("PUT", IF ok THEN 200 ELSE 500)
     /\ UNCHANGED <<bank_accounts, nextAccId, page, view, users, body, categories, nextTxnId, nextCatId, xfer,
                    bulk, ensure, observed>>

\* ------------------------------------- DELETE /api/transactions/[id]
\* (a delete that takes the other half of a transfer along)
deleteTransaction_WithCounterpart(u, id) ==
  LET own == Visible({t \in transactions : t.id = id}, u)
  IN own \cup {t \in Visible(transactions, u) :
                 \E o \in own : /\ o.transfer_to_account_id = t.bank_account_id
                                /\ t.transfer_to_account_id = o.bank_account_id}

\* deleteTransaction: delete ... .eq("id", id), within the delete policy:
\* the rows the statement removes.
deleteTransaction(u, id) == Visible({t \in transactions : t.id = id}, u)

DELETE(u, id) ==
  /\ transactions' = transactions \ deleteTransaction(u, id)
  /\ resp' = [op |-> "DELETE", status |-> 200, id |-> id]
  /\ UNCHANGED <<bank_accounts, nextAccId, page, view, users, body, categories, nextTxnId,
                 nextCatId, xfer, bulk, ensure, observed>>

\* ------------------------------ DELETE /api/transactions/bulk-delete
\* (the statement with .eq("id", transaction_ids[0]))
Listed_First(u, ids) ==
  Visible({t \in transactions : t.id \in ids /\ \A i \in ids : t.id <= i}, u)

\* .in("id", transaction_ids): the rows the statement reaches, within the
\* caller's policy.
Listed(u, ids) == Visible({t \in transactions : t.id \in ids}, u)

\* One delete statement over .in("id", transaction_ids).
BulkDelete(u, ids) ==
  /\ IF ids = {}
     THEN /\ resp' = Resp("bulk-delete", 400)
          /\ UNCHANGED transactions
     ELSE /\ transactions' = transactions \ Listed(u, ids)
          /\ resp' = [op |-> "bulk-delete", status |-> 200, ids |-> ids]
  /\ UNCHANGED <<bank_accounts, nextAccId, page, view, users, body, categories, nextTxnId,
                 nextCatId, xfer, bulk, ensure, observed>>

\* ------------------------------- PATCH /api/transactions/bulk-update
\* One update statement setting category_id and transfer_to_account_id
\* (transfer_to_account_id || null) over .in("id", transaction_ids).
BulkUpdate(u, ids, c, to) ==
  LET old == Listed(u, ids)
      new(t) == [t EXCEPT !.category_id = c, !.transfer_to_account_id = to]
      ok == \A t \in old : TransactionRowAccepted(u, new(t))
  IN /\ IF ids = {} \/ c = NULL
        THEN /\ resp' = Resp("bulk-update", 400)
             /\ UNCHANGED transactions
        ELSE /\ transactions' =
                  IF ok THEN (transactions \ old) \cup {new(t) : t \in old}
                  ELSE transactions
             /\ resp' = [op |-> "bulk-update",
                         status |-> IF ok THEN 200 ELSE 500, ids |-> ids]
     /\ UNCHANGED <<bank_accounts, nextAccId, page, view, users, body, categories, nextTxnId,
                    nextCatId, xfer, bulk, ensure, observed>>

\* ------------------------------------------- POST /api/bank-accounts
\* The store calls of createBankAccount and createTransferCategory, in order.
StoreCalls == {"insert_account", "select_transfers", "insert_transfers",
               "insert_child"}

\* "Find the Transfers parent category": .eq("name", "Transfers")
\* .is("parent_id", null).single() gives data only for exactly one row.
transfersCategory(u) ==
  {c \in Visible(categories, u) : c.name = "Transfers" /\ c.parent_id = NULL}

NewCategory(id, u, name, parentId, isTransferCategory) ==
  [id |-> id, user_id |-> u, name |-> name, parent_id |-> parentId,
   is_transfer_category |-> isTransferCategory]

\* createTransferCategory(userId, accountId, accountName): the rows it adds.
\* `failed` are the store calls that report an error; none of the results
\* is inspected beyond `data`, and nothing is thrown.
createTransferCategory(u, accountName, failed) ==
  LET found == IF "select_transfers" \in failed THEN {} ELSE transfersCategory(u)
  IN IF Cardinality(found) # 1
     THEN IF "insert_transfers" \in failed THEN {}
          ELSE {NewCategory(nextCatId, u, "Transfers", NULL, FALSE)} \cup
               (IF "insert_child" \in failed THEN {}
                ELSE {NewCategory(nextCatId + 1, u, "Transfer to " \o accountName,
                                  nextCatId, TRUE)})
     ELSE IF "insert_child" \in failed THEN {}
          ELSE {NewCategory(nextCatId, u, "Transfer to " \o accountName,
                            (CHOOSE c \in found : TRUE).id, TRUE)}

\* createBankAccount(name): insert the account, throw on its error; then
\* "await createTransferCategory(user.id, data.id, name); return data".
createBankAccount(u, name, failed) ==
  /\ IF name = ""
     THEN /\ resp' = Resp("createBankAccount", 400)
          /\ UNCHANGED <<bank_accounts, nextAccId, categories, nextCatId>>
     ELSE IF "insert_account" \in failed
     THEN /\ resp' = Resp("createBankAccount", 500)
          /\ UNCHANGED <<bank_accounts, nextAccId, categories, nextCatId>>
     ELSE /\ bank_accounts' = bank_accounts \cup
               {[id |-> nextAccId, user_id |-> u, name |-> name]}
          /\ nextAccId' = nextAccId + 1
          /\ categories' = categories \cup createTransferCategory(u, name, failed)
          /\ nextCatId' = nextCatId
                          + Cardinality(createTransferCategory(u, name, failed))
          /\ resp' = [op |-> "createBankAccount", status |-> 201,
                      id |-> nextAccId, name |-> name, user |-> u]
  /\ UNCHANGED <<transactions, nextTxnId, xfer, bulk, ensure, observed, page, view, users, body>>

\* ------------------------------------ DELETE /api/bank-accounts/[id]
\* deleteBankAccount: delete from bank_accounts, within the delete policy.
\* transactions.bank_account_id is "on delete cascade" and
\* transactions.transfer_to_account_id is "on delete set null".
\* (the delete with transfer_to_account_id left as it is)
deleteBankAccount_NoSetNull(u, id) ==
  LET gone == {a.id : a \in Visible({a \in bank_accounts : a.id = id}, u)}
  IN /\ bank_accounts' = {a \in bank_accounts : a.id \notin gone}
     /\ transactions' = {t \in transactions : t.bank_account_id \notin gone}
     /\ resp' = Resp("deleteBankAccount", 200)
     /\ UNCHANGED <<categories, nextAccId, nextTxnId, nextCatId, xfer, bulk,
                    ensure, observed, page, view, users, body>>

deleteBankAccount(u, id) ==
  LET gone == {a.id : a \in Visible({a \in bank_accounts : a.id = id}, u)}
      kept == {t \in transactions : t.bank_account_id \notin gone}
  IN /\ bank_accounts' = {a \in bank_accounts : a.id \notin gone}
     /\ transactions' =
          {IF t.transfer_to_account_id \in gone
           THEN [t EXCEPT !.transfer_to_account_id = NULL] ELSE t : t \in kept}
     /\ resp' = Resp("deleteBankAccount", 200)
     /\ UNCHANGED <<categories, nextAccId, nextTxnId, nextCatId, xfer, bulk,
                    ensure, observed, page, view, users, body>>

\* ---------------------------------------- DELETE /api/categories/[id]
\* categories.parent_id is "on delete cascade": the rows a delete of `ids`
\* takes with it.
RECURSIVE Cascade(_)
Cascade(ids) ==
  LET more == {c.id : c \in {c \in categories : c.parent_id \in ids}}
  IN IF more \subseteq ids THEN ids ELSE Cascade(ids \cup more)

\* The select of deleteCategory: "Check if category has transactions".
categoryHasTransactions(u, id) ==
  Visible({t \in transactions : t.category_id = id}, u) # {}

\* (the foreign key without "on delete restrict")
RestrictViolated_Unchecked(ids) == FALSE

\* transactions.category_id is "on delete restrict".
RestrictViolated(ids) == \E t \in transactions : t.category_id \in ids

\* deleteCategory: the check, then delete ... .eq("id", id) within the delete
\* policy; the foreign keys decide the statement.
deleteCategoryOk(u, id) ==
  /\ ~categoryHasTransactions(u, id)
  /\ LET gone == Cascade({c.id : c \in Visible({c \in categories : c.id = id}, u)})
     IN ~RestrictViolated(gone)

deleteCategory(u, id) ==
  LET gone == Cascade({c.id : c \in Visible({c \in categories : c.id = id}, u)})
  IN /\ categories' =
          IF deleteCategoryOk(u, id)
          THEN {c \in categories : c.id \notin gone}
          ELSE categories
     /\ resp' = [op |-> "deleteCategory",
                 status |-> IF deleteCategoryOk(u, id) THEN 200 ELSE 500,
                 id |-> id, user |-> u]
     /\ UNCHANGED <<bank_accounts, nextAccId, page, view, users, body, transactions, nextTxnId, nextCatId, xfer,
                    bulk, ensure, observed>>

\* ------------------------------------------ POST /api/transactions/bulk
\* The import request: the candidates are taken in order, each through
\* createTransferTransaction or createTransaction; a throw is counted in
\* `errors` and the loop goes on.  The fields of a candidate are drawn when
\* the loop reaches it.
POST_bulk(u, n) ==
  /\ bulk.pc = "idle"
  /\ IF n = 0
     THEN /\ resp' = Resp("POST_bulk", 400)
          /\ UNCHANGED bulk
     ELSE /\ bulk' = [pc |-> "loop", user |-> u, length |-> n,
                      remaining |-> n, imported |-> 0, errors |-> 0]
          /\ UNCHANGED resp
  /\ UNCHANGED <<bank_accounts, nextAccId, categories, transactions, nextTxnId, nextCatId,
                 xfer, ensure, observed>>

BulkRow(b, d, amt, desc, c, to) ==
  /\ bulk.pc = "loop"
  /\ bulk.remaining > 0
  /\ IF to # NULL
     THEN /\ xfer.pc = "idle"
          /\ IdsLeft(2)
          /\ xfer' = XferCall("bulk", bulk.user, b, to, d, amt, desc, c)
          /\ bulk' = [bulk EXCEPT !.pc = "transfer"]
          /\ UNCHANGED <<transactions, nextTxnId>>
     ELSE /\ IdsLeft(1)
          /\ createTransaction(bulk.user, b, d, amt, desc, c, NULL)
          /\ bulk' = [bulk EXCEPT
                        !.remaining = @ - 1,
                        !.imported =
                          IF createTransactionOk(bulk.user, b, d, amt, desc, c, NULL)
                          THEN @ + 1 ELSE @,
                        !.errors =
                          IF createTransactionOk(bulk.user, b, d, amt, desc, c, NULL)
                          THEN @ ELSE @ + 1]
          /\ UNCHANGED xfer
  /\ UNCHANGED <<bank_accounts, nextAccId, page, view, users, body, categories, nextCatId, ensure, observed, resp>>

BulkReturn ==
  /\ bulk.pc = "loop"
  /\ bulk.remaining = 0
  /\ resp' = [op |-> "POST_bulk", status |-> 200, imported |-> bulk.imported,
              errors |-> bulk.errors, length |-> bulk.length]
  /\ bulk' = BulkIdle
  /\ UNCHANGED <<bank_accounts, nextAccId, page, view, users, body, categories, transactions, nextTxnId, nextCatId,
                 xfer, ensure, observed>>

\* -------------------------------------------------------- getTransactions
\* The select of getTransactions without filters: the caller's rows.
getTransactions(u) ==
  /\ observed' = {t.id : t \in Visible(transactions, u)}
  /\ UNCHANGED <<bank_accounts, nextAccId, page, view, users, body, categories, transactions, nextTxnId, nextCatId,
                 xfer, bulk, ensure, resp>>

\* ------------------------------------------------- POST /api/categories
\* createCategory(name, parent_id, false): the insert policy wants the
\* caller's user_id; the parent_id foreign key wants an existing category.
createCategoryOk(u, name, parentId) ==
  name # "" /\ parentId \in CategoryIds \cup {NULL}

createCategory(u, name, parentId) ==
  /\ IF name = ""
     THEN /\ resp' = Resp("createCategory", 400)
          /\ UNCHANGED <<categories, nextCatId>>
     ELSE IF createCategoryOk(u, name, parentId)
     THEN /\ categories' = categories \cup
               {[id |-> nextCatId, user_id |-> u, name |-> name,
                 parent_id |-> parentId, is_transfer_category |-> FALSE]}
          /\ nextCatId' = nextCatId + 1
          /\ resp' = Resp("createCategory", 201)
     ELSE /\ resp' = Resp("createCategory", 500)
          /\ UNCHANGED <<categories, nextCatId>>
  /\ UNCHANGED <<bank_accounts, nextAccId, page, view, users, body, transactions, nextTxnId, xfer, bulk, ensure,
                 observed>>

\* Categories created through POST /api/categories that are still there.
CustomCount == Cardinality({c \in categories : c.name = "Custom"})

\* ------------------------------------------ PUT /api/categories/[id]
\* updateCategory: update categories set name, parent_id ... .eq("id", id)
\* .select().single(), within the update policy.  The parent_id foreign key
\* wants an existing category; nothing compares parentId with id or with
\* the categories below id.
updateCategoryOk(u, id, name, parentId) ==
  /\ Visible({c \in categories : c.id = id}, u) # {}
  /\ parentId \in CategoryIds \cup {NULL}

updateCategory(u, id, name, parentId) ==
  LET old == Visible({c \in categories : c.id = id}, u)
      new(c) == [c EXCEPT !.name = name, !.parent_id = parentId]
  IN /\ IF id = NULL \/ name = ""
        THEN /\ resp' = Resp("updateCategory", 400)
             /\ UNCHANGED categories
        ELSE /\ categories' =
                  IF updateCategoryOk(u, id, name, parentId)
                  THEN (categories \ old) \cup {new(c) : c \in old}
                  ELSE categories
             /\ resp' = Resp("updateCategory",
                             IF updateCategoryOk(u, id, name, parentId)
                             THEN 200 ELSE 500)
     /\ UNCHANGED <<bank_accounts, nextAccId, page, view, users, body, transactions,
                    nextTxnId, nextCatId, xfer, bulk, ensure, observed>>

\* ------------------------------------------------------------- parseCSV
\* A field of the file is the sequence of its characters, a row the sequence
\* of its fields (Papa.parse with header: false), a file the sequence of its
\* non-empty rows.  Amounts are counted in cents.
DigitChars == <<"0", "1", "2", "3", "4", "5", "6", "7", "8", "9">>

IsDigit(ch) == \E i \in 1..10 : DigitChars[i] = ch
DigitValue(ch) == (CHOOSE i \in 1..10 : DigitChars[i] = ch) - 1

\* Number.NaN, and a number.
NaN == [nan |-> TRUE, val |-> 0]
Num(n) == [nan |-> FALSE, val |-> n]
isNaN(x) == x.nan

RECURSIVE TrimStart(_)
TrimStart(str) ==
  IF str # <<>> /\ Head(str) = " " THEN TrimStart(Tail(str)) ELSE str

RECURSIVE TrimEnd(_)
TrimEnd(str) ==
  IF str # <<>> /\ str[Len(str)] = " "
  THEN TrimEnd(SubSeq(str, 1, Len(str) - 1)) ELSE str

\* String.prototype.trim
trim(str) == TrimEnd(TrimStart(str))

\* String.prototype.split("/")
RECURSIVE split(_)
split(str) ==
  IF \E i \in 1..Len(str) : str[i] = "/"
  THEN LET i == CHOOSE i \in 1..Len(str) :
                  str[i] = "/" /\ \A j \in 1..(i - 1) : str[j] # "/"
       IN <<SubSeq(str, 1, i - 1)>> \o split(SubSeq(str, i + 1, Len(str)))
  ELSE <<str>>

\* The digits a string starts with, and their value.
RECURSIVE DigitsPrefix(_)
DigitsPrefix(str) ==
  IF str # <<>> /\ IsDigit(Head(str))
  THEN <<Head(str)>> \o DigitsPrefix(Tail(str)) ELSE <<>>

RECURSIVE DecimalValue(_)
DecimalValue(digits) ==
  IF digits = <<>> THEN 0
  ELSE 10 * DecimalValue(SubSeq(digits, 1, Len(digits) - 1))
       + DigitValue(digits[Len(digits)])

\* parseInt(str, 10): leading white space, a sign, the digits that follow.
parseInt(str) ==
  LET t == TrimStart(str)
      signed == t # <<>> /\ Head(t) \in {"-", "+"}
      digits == DigitsPrefix(IF signed THEN Tail(t) ELSE t)
  IN IF digits = <<>> THEN NaN
     ELSE Num((IF signed /\ Head(t) = "-" THEN -1 ELSE 1) * DecimalValue(digits))

\* parseFloat(str), read in cents: a sign, digits, and up to two digits after
\* a decimal point (further digits are below a cent).
parseFloat(str) ==
  LET t == TrimStart(str)
      signed == t # <<>> /\ Head(t) \in {"-", "+"}
      u == IF signed THEN Tail(t) ELSE t
      whole == DigitsPrefix(u)
      rest == SubSeq(u, Len(whole) + 1, Len(u))
      frac == IF rest # <<>> /\ Head(rest) = "." THEN DigitsPrefix(Tail(rest))
              ELSE <<>>
      cents == IF frac = <<>> THEN 0
               ELSE IF Len(frac) = 1 THEN 10 * DigitValue(frac[1])
               ELSE 10 * DigitValue(frac[1]) + DigitValue(frac[2])
  IN IF whole = <<>> /\ frac = <<>> THEN NaN
     ELSE Num((IF signed /\ Head(t) = "-" THEN -1 ELSE 1)
              * (100 * DecimalValue(whole) + cents))

\* parseFloat(str?.trim() || "0") || 0
AmountOf(str) ==
  LET t == trim(str)
      x == parseFloat(IF t = <<>> THEN <<"0">> ELSE t)
  IN IF isNaN(x) THEN 0 ELSE x.val

\* --- new Date(year, month, day) and Date.prototype.toISOString
IsLeapYear(y) == (y % 4 = 0 /\ y % 100 # 0) \/ y % 400 = 0

\* Days from 1 January of year 1 to 1 January of year y.
DaysBeforeYear(y) ==
  365 * (y - 1) + ((y - 1) \div 4) - ((y - 1) \div 100) + ((y - 1) \div 400)

MonthLength(y, m) ==
  IF m = 2 THEN (IF IsLeapYear(y) THEN 29 ELSE 28)
  ELSE IF m \in {4, 6, 9, 11} THEN 30 ELSE 31

RECURSIVE DaysBeforeMonth(_, _)
DaysBeforeMonth(y, m) ==
  IF m = 1 THEN 0 ELSE DaysBeforeMonth(y, m - 1) + MonthLength(y, m - 1)

\* new Date(year, month, day): local midnight of the day the arguments
\* denote; a month or a day outside its range carries over into the
\* neighbouring months and years, and a year from 0 to 99 counts from 1900.
\* The value is the number of the day, counted from 1 January of year 1.
Date(year, month, day) ==
  LET full == IF year >= 0 /\ year <= 99 THEN 1900 + year ELSE year
      months == 12 * full + month
      y == months \div 12
      m == (months % 12) + 1
  IN DaysBeforeYear(y) + DaysBeforeMonth(y, m) + day - 1

\* isNaN(date.getTime()): the time value is outside the range of Date.
InvalidTime(year) == Abs(year) > 275760

RECURSIVE Digits(_, _)
Digits(n, width) ==
  IF width = 0 THEN <<>>
  ELSE Digits(n \div 10, width - 1) \o <<DigitChars[(n % 10) + 1]>>

\* date.toISOString().split("T")[0]: the calendar day, in UTC, of local
\* midnight of day `date` in a zone `offset` hours ahead of UTC.
toISOString(date, offset) ==
  LET utc == (24 * date - offset) \div 24
      y == CHOOSE y \in ((utc \div 366) + 1)..((utc \div 365) + 1) :
             DaysBeforeYear(y) <= utc /\ utc < DaysBeforeYear(y + 1)
      r == utc - DaysBeforeYear(y)
      m == CHOOSE m \in 1..12 :
             /\ DaysBeforeMonth(y, m) <= r
             /\ r < DaysBeforeMonth(y, m) + MonthLength(y, m)
      d == r - DaysBeforeMonth(y, m) + 1
  IN Digits(y, 4) \o <<"-">> \o Digits(m, 2) \o <<"-">> \o Digits(d, 2)

\* --- the rows
\* (the derivation that prefers the debit when both columns have a value)
amount_DebitFirst(debit, credit) ==
  IF debit > 0 /\ credit = 0 THEN -debit
  ELSE IF credit > 0 /\ debit = 0 THEN credit
  ELSE IF debit = 0 /\ credit = 0 THEN 0
  ELSE IF debit > 0 THEN -debit ELSE credit

\* "Determine amount: debit is negative (expense), credit is positive (income)"
amount(debit, credit) ==
  IF debit > 0 /\ credit = 0 THEN -debit
  ELSE IF credit > 0 /\ debit = 0 THEN credit
  ELSE IF debit = 0 /\ credit = 0 THEN 0
  ELSE IF credit > 0 THEN credit ELSE -debit

toLowerCase(ch) ==
  IF ch = "D" THEN "d" ELSE IF ch = "A" THEN "a"
  ELSE IF ch = "T" THEN "t" ELSE IF ch = "E" THEN "e" ELSE ch

\* row[0].toLowerCase().includes("date")
IsHeader(row) ==
  /\ row # <<>>
  /\ \E i \in 1..(Len(row[1]) - 3) :
       [j \in 1..4 |-> toLowerCase(row[1][i + j - 1])] = <<"d", "a", "t", "e">>

ParseError(index, message, row) ==
  [transactions |-> <<>>,
   errors |-> <<[row |-> index + 1, message |-> message, data |-> row]>>]

\* The body of results.data.forEach((row, index) => ...): what the row adds
\* to `transactions` and to `errors`.
parseRow(row, index, offset) ==
  IF index = 0 /\ IsHeader(row)
  THEN [transactions |-> <<>>, errors |-> <<>>]
  ELSE IF Len(row) < 5
  THEN ParseError(index, "Row does not have enough columns", row)
  ELSE LET dateParts == split(trim(row[1]))
       IN IF Len(dateParts) # 3
          THEN ParseError(index, "Invalid date format", row)
          ELSE LET month == parseInt(dateParts[1])
                   day == parseInt(dateParts[2])
                   year == parseInt(dateParts[3])
               IN IF isNaN(month) \/ isNaN(day) \/ isNaN(year)
                  THEN ParseError(index, "Invalid date values", row)
                  ELSE IF InvalidTime(year.val)
                  THEN ParseError(index, "Invalid date", row)
                  ELSE IF trim(row[2]) = <<>>
                  THEN ParseError(index, "Description is required", row)
                  ELSE [transactions |->
                          <<[date |-> toISOString(
                                        Date(year.val, month.val - 1, day.val),
                                        offset),
                             description |-> trim(row[2]),
                             amount |-> amount(AmountOf(row[3]), AmountOf(row[4])),
                             runningBalance |-> AmountOf(row[5]),
                             rawRow |-> row]>>,
                        errors |-> <<>>]

RECURSIVE ParseFrom(_, _, _)
ParseFrom(rows, i, offset) ==
  IF i > Len(rows) THEN [transactions |-> <<>>, errors |-> <<>>]
  ELSE LET head == parseRow(rows[i], i - 1, offset)
           rest == ParseFrom(rows, i + 1, offset)
       IN [transactions |-> head.transactions \o rest.transactions,
           errors |-> head.errors \o rest.errors]

\* parseCSV(file) in a browser `offset` hours ahead of UTC.
parseCSV(rows, offset) == ParseFrom(rows, 1, offset)

\* ------------------------------------------------------- uploaded files
\* Hours ahead of UTC of the browsers that run parseCSV.
TimezoneOffsets == {-5, 10}

DateFields ==
  { <<"0", "1", "/", "3", "1", "/", "2", "0", "2", "4">>, <<"0", "2", "/", "2", "9", "/", "2", "0", "2", "4">>,
    <<"0", "2", "/", "3", "0", "/", "2", "0", "2", "4">>, <<"1", "3", "/", "0", "1", "/", "2", "0", "2", "4">>,
    <<"x", "x", "/", "0", "1", "/", "2", "0", "2", "4">>, <<"0", "1", "-", "3", "1", "-", "2", "0", "2", "4">> }

RentField == <<"R", "e", "n", "t">>
DescriptionFields == {RentField, <<" ", "R", " ">>, <<" ">>}

AmountFields == {<<>>, <<"5">>, <<"x">>, <<"2", ".", "5">>, <<"-", "5">>}

HeaderRow == <<<<"D", "a", "t", "e">>, RentField, <<>>, <<>>, <<>>>>

Rows ==
  {<<date, RentField, <<"5">>, <<>>, <<"9">>>> : date \in DateFields}
  \cup {<<<<"0", "1", "/", "3", "1", "/", "2", "0", "2", "4">>, description, <<>>, <<"5">>, <<"9">>>> :
          description \in DescriptionFields}
  \cup {<<<<"0", "1", "/", "3", "1", "/", "2", "0", "2", "4">>, RentField, debit, credit, <<"9">>>> :
          debit \in AmountFields, credit \in {<<>>, <<"5">>, <<"-", "5">>}}
  \cup {<<<<"0", "1", "/", "3", "1", "/", "2", "0", "2", "4">>, RentField, <<"5">>, <<>>>>, HeaderRow}

RECURSIVE FilesOfLength(_)
FilesOfLength(n) ==
  IF n = 0 THEN {<<>>}
  ELSE {<<row>> \o rest : row \in Rows, rest \in FilesOfLength(n - 1)}

Files == UNION {FilesOfLength(n) : n \in 0..MaxRows}

\* The file whose rows end up on the categorization page.
StagedFiles ==
  {<<<<<<"0", "1", "/", "3", "1", "/", "2", "0", "2", "4">>, RentField, <<"5">>, <<>>, <<"9">>>>,
     <<<<"0", "2", "/", "2", "9", "/", "2", "0", "2", "4">>, RentField, <<>>, <<"5">>, <<"9">>>>>>}

\* ------------------------------------------------------- CSVUploadForm
\* handleFileChange: the chosen file (its name ends in ".csv").
handleFileChange(rows) ==
  /\ file' = <<rows>>
  /\ UNCHANGED <<bank_accounts, nextAccId, categories, transactions, nextTxnId,
                 nextCatId, xfer, bulk, ensure, observed, resp, users, tz, view, result,
                 pendingTransactions, editedTransactions, selectedRows,
                 isImporting, body>>

\* handleSubmit: parse the file and, unless every row failed, put the
\* candidates in sessionStorage and go to /dashboard/categorize.
handleSubmit(bankAccountId) ==
  /\ IF file = <<>> \/ bankAccountId = NULL
     THEN UNCHANGED <<file, result, pendingTransactions>>
     ELSE /\ result' = parseCSV(file[1], tz)
          /\ IF Len(result'.errors) > 0 /\ Len(result'.transactions) = 0
             THEN UNCHANGED <<file, pendingTransactions>>
             ELSE /\ pendingTransactions' =
                       <<[transactions |-> result'.transactions,
                          bankAccountId |-> bankAccountId]>>
                  /\ file' = <<>>
  /\ UNCHANGED <<bank_accounts, nextAccId, categories, transactions, nextTxnId,
                 nextCatId, xfer, bulk, ensure, observed, resp, users, tz, view,
                 editedTransactions, selectedRows, isImporting, body>>

\* ------------------------------------------------- CategorizationTable
\* The page reads sessionStorage and mounts the table: the candidates, none
\* categorized, none selected.
CategorizationPageClient ==
  /\ pendingTransactions # <<>>
  /\ ~isImporting
  /\ editedTransactions' =
       [i \in 1..Len(pendingTransactions[1].transactions) |->
          [date |-> pendingTransactions[1].transactions[i].date,
           description |-> pendingTransactions[1].transactions[i].description,
           amount |-> pendingTransactions[1].transactions[i].amount,
           categoryId |-> NULL]]
  /\ selectedRows' = {}
  /\ UNCHANGED <<bank_accounts, nextAccId, categories, transactions, nextTxnId,
                 nextCatId, xfer, bulk, ensure, observed, resp, users, tz, view, file, result,
                 pendingTransactions, isImporting, body>>

\* (handlers of the table that write the edited row through to the store)
TableFrame_WriteThrough ==
  /\ transactions' = transactions \cup
       {[id |-> nextTxnId, user_id |-> "u1", bank_account_id |-> 1, date |-> 1,
         amount |-> 1, description |-> "Rent", category_id |-> 1,
         transfer_to_account_id |-> NULL]}
  /\ UNCHANGED <<bank_accounts, nextAccId, categories, nextTxnId, nextCatId,
                 xfer, bulk, ensure, observed, resp, users, tz, view, file, result,
                 pendingTransactions, isImporting, body>>

\* What the handlers of the table leave alone: everything but its own state.
TableFrame ==
  UNCHANGED <<bank_accounts, nextAccId, categories, transactions, nextTxnId,
              nextCatId, xfer, bulk, ensure, observed, resp, users, tz, view, file, result,
              pendingTransactions, isImporting, body>>

\* updateTransaction(index, updates): the row with the updated fields.
updateTransaction(index, updates) ==
  /\ index \in 1..Len(editedTransactions)
  /\ editedTransactions' =
       [editedTransactions EXCEPT ![index] =
          [f \in DOMAIN @ |-> IF f \in DOMAIN updates THEN updates[f] ELSE @[f]]]
  /\ UNCHANGED selectedRows
  /\ TableFrame

toggleRowSelection(index) ==
  /\ index \in 1..Len(editedTransactions)
  /\ selectedRows' = IF index \in selectedRows THEN selectedRows \ {index}
                     ELSE selectedRows \cup {index}
  /\ UNCHANGED editedTransactions
  /\ TableFrame

selectAll ==
  /\ selectedRows' = IF Cardinality(selectedRows) = Len(editedTransactions)
                     THEN {} ELSE 1..Len(editedTransactions)
  /\ UNCHANGED editedTransactions
  /\ TableFrame

bulkCategorize(categoryId) ==
  /\ editedTransactions' =
       [i \in 1..Len(editedTransactions) |->
          IF i \in selectedRows
          THEN [editedTransactions[i] EXCEPT !.categoryId = categoryId]
          ELSE editedTransactions[i]]
  /\ selectedRows' = {}
  /\ TableFrame

\* Array.prototype.filter by position.
RECURSIVE filter(_, _)
filter(rows, keep) ==
  IF rows = <<>> THEN <<>>
  ELSE filter(SubSeq(rows, 1, Len(rows) - 1), keep)
       \o (IF Len(rows) \in keep THEN <<rows[Len(rows)]>> ELSE <<>>)

confirmBulkDelete ==
  /\ editedTransactions' =
       filter(editedTransactions, (1..Len(editedTransactions)) \ selectedRows)
  /\ selectedRows' = {}
  /\ TableFrame

\* handleDeleteRow(index) and confirmSingleDelete: the row is taken out and
\* the selection follows the rows that move up.
confirmSingleDelete(index) ==
  /\ index \in 1..Len(editedTransactions)
  /\ editedTransactions' =
       filter(editedTransactions, (1..Len(editedTransactions)) \ {index})
  /\ selectedRows' = {i \in selectedRows : i < index}
                     \cup {i - 1 : i \in {i \in selectedRows : i > index}}
  /\ TableFrame

\* handleImport: the categorized rows (of the selection, if there is one)
\* are sent to POST /api/transactions/bulk, each on the account of the
\* upload and each with transfer_to_account_id: null.
transactionsToImport ==
  filter(editedTransactions,
         {i \in 1..Len(editedTransactions) :
            /\ editedTransactions[i].categoryId # NULL
            /\ selectedRows # {} => i \in selectedRows})

handleImport(u) ==
  /\ ~isImporting
  /\ pendingTransactions # <<>>
  /\ IF transactionsToImport = <<>>
     THEN UNCHANGED <<bank_accounts, nextAccId, categories, transactions,
                      nextTxnId, nextCatId, xfer, bulk, ensure, observed, resp,
                      isImporting, body>>
     ELSE /\ isImporting' = TRUE
          /\ body' = [i \in 1..Len(transactionsToImport) |->
                        [bank_account_id |-> pendingTransactions[1].bankAccountId,
                         date |-> transactionsToImport[i].date,
                         amount |-> transactionsToImport[i].amount,
                         description |-> transactionsToImport[i].description,
                         category_id |-> transactionsToImport[i].categoryId,
                         transfer_to_account_id |-> NULL]]
          /\ POST_bulk(u, Len(transactionsToImport))
  /\ UNCHANGED <<tz, view, users, file, result, pendingTransactions,
                 editedTransactions, selectedRows>>

\* for (const txn of transactions): the next row of the request body.
BulkRowOfRequest ==
  /\ bulk.pc = "loop"
  /\ bulk.remaining > 0
  /\ body # <<>>
  /\ LET txn == body[Len(body) - bulk.remaining + 1]
     IN BulkRow(txn.bank_account_id, txn.date, txn.amount, txn.description,
                txn.category_id, txn.transfer_to_account_id)

\* handleImport after the response: the staged rows are dropped from
\* sessionStorage and the page is left for /dashboard/transactions.
handleImportResponse ==
  /\ isImporting
  /\ bulk.pc = "idle"
  /\ isImporting' = FALSE
  /\ pendingTransactions' = <<>>
  /\ editedTransactions' = <<>>
  /\ selectedRows' = {}
  /\ body' = <<>>
  /\ UNCHANGED <<bank_accounts, nextAccId, categories, transactions, nextTxnId,
                 nextCatId, xfer, bulk, ensure, observed, resp, users, tz, view, file, result>>

\* ------------------------------------------------ seed_default_categories
\* The rows of the function's inserts, in order; parent is the position of
\* the row whose returned id the insert uses (0: null).
DefaultCategories ==
  << [name |-> "Income", parent |-> 0],
     [name |-> "Contracting Income", parent |-> 1],
     [name |-> "Dividend Payments", parent |-> 1],
     [name |-> "Expenses", parent |-> 0],
     [name |-> "Business Expenses", parent |-> 4],
     [name |-> "Motor Vehicle Expenses", parent |-> 5],
     [name |-> "Healthcare Supplies", parent |-> 5],
     [name |-> "Bank Fees", parent |-> 5],
     [name |-> "Interest", parent |-> 5],
     [name |-> "Tax Payments", parent |-> 5],
     [name |-> "Employee Payments", parent |-> 4],
     [name |-> "Loans to Sole Shareholder", parent |-> 4],
     [name |-> "Utilities", parent |-> 4],
     [name |-> "Rent/Office Space", parent |-> 4],
     [name |-> "Transfers", parent |-> 0],
     [name |-> "Assets", parent |-> 0],
     [name |-> "Liabilities", parent |-> 0] >>

\* The rows seed_default_categories(user_uuid) inserts when the identity
\* sequence stands at `first`.
seed_default_categories(user_uuid, first) ==
  {[id |-> first + i - 1, user_id |-> user_uuid,
    name |-> DefaultCategories[i].name,
    parent_id |-> IF DefaultCategories[i].parent = 0 THEN NULL
                  ELSE first + DefaultCategories[i].parent - 1,
    is_transfer_category |-> FALSE] : i \in 1..Len(DefaultCategories)}

\* ------------------------------------------------ ensureDefaultCategories
\* (the check looking at transfer categories only)
existingCategories_TransferOnly(u) ==
  {c.id : c \in {c \in Visible(categories, u) :
                   c.user_id = u /\ c.is_transfer_category}}

\* "Check if user has any categories": select id ... eq user_id ... limit 1.
existingCategories(u) ==
  {c.id : c \in {c \in Visible(categories, u) : c.user_id = u}}

\* The check; a user with categories is done, another goes on to the rpc.
EnsureCheck(s, u) ==
  /\ ensure[s].pc = "idle"
  /\ IF existingCategories(u) = {}
     THEN /\ ensure' = [ensure EXCEPT ![s] = [pc |-> "seed", user |-> u]]
          /\ UNCHANGED resp
     ELSE /\ resp' = [op |-> "ensureDefaultCategories", user |-> u,
                      seeded |-> FALSE]
          /\ UNCHANGED ensure
  /\ UNCHANGED <<bank_accounts, nextAccId, page, view, users, body, categories, transactions, nextTxnId, nextCatId,
                 xfer, bulk, observed>>

\* supabase.rpc("seed_default_categories", { user_uuid: user.id }).
EnsureSeed(s) ==
  /\ ensure[s].pc = "seed"
  /\ categories' = categories \cup seed_default_categories(ensure[s].user, nextCatId)
  /\ nextCatId' = nextCatId + Len(DefaultCategories)
  /\ ensure' = [ensure EXCEPT ![s] = EnsureIdle]
  /\ resp' = [op |-> "ensureDefaultCategories", user |-> ensure[s].user,
              seeded |-> TRUE]
  /\ UNCHANGED <<bank_accounts, nextAccId, page, view, users, body, transactions, nextTxnId, xfer, bulk, observed>>

\* Trigger on_auth_user_created: the insert into auth.users and the seeding of
\* the new user are one transaction.
handle_new_user(u) ==
  /\ u \notin users
  /\ users' = users \cup {u}
  /\ categories' = categories \cup seed_default_categories(u, nextCatId)
  /\ nextCatId' = nextCatId + Len(DefaultCategories)
  /\ UNCHANGED <<bank_accounts, nextAccId, page, view, body, transactions,
                 nextTxnId, xfer, bulk, ensure, observed, resp>>

\* ------------------------------------------------- GET /api/transactions
\* Page size of the transaction list (pageSize: 20 on the page; the request
\* parameter is free).
pageSize == 1

ListDates == {1, 2}
SortFields == {"date", "amount"}
SortDirections == {"asc", "desc"}

Min(a, b) == IF a < b THEN a ELSE b

\* (an order clause with id as the second key)
Ordered_ThenById(rows, orderBy, ascending) ==
  {s \in [1..Cardinality(rows) -> rows] :
     \A i, j \in 1..Cardinality(rows) :
       i < j => \/ IF ascending THEN s[i][orderBy] < s[j][orderBy]
                                ELSE s[i][orderBy] > s[j][orderBy]
                \/ s[i][orderBy] = s[j][orderBy] /\ s[i].id < s[j].id}

\* query.order(orderBy, { ascending }): the sequences in which the statement
\* may return `rows`.  orderBy is the only sort key, so rows equal on it come
\* in whatever order the executor produces.
Ordered(rows, orderBy, ascending) ==
  {s \in [1..Cardinality(rows) -> rows] :
     /\ \A i, j \in 1..Cardinality(rows) : i # j => s[i] # s[j]
     /\ \A i, j \in 1..Cardinality(rows) :
          i < j => IF ascending THEN s[i][orderBy] <= s[j][orderBy]
                   ELSE s[i][orderBy] >= s[j][orderBy]}

\* query.range(from, to): rows from (counted from 0) up to and including to.
range(s, from, to) == SubSeq(s, from + 1, Min(to + 1, Len(s)))

\* (a running balance that stops at the row itself in (date, id) order)
runningBalance_UpToRow(u, transaction) ==
  SumAmounts({t \in Visible(transactions, u) :
                /\ t.bank_account_id = transaction.bank_account_id
                /\ \/ t.date < transaction.date
                   \/ t.date = transaction.date /\ t.id <= transaction.id})

\* "Calculate running balance": the amounts of the rows with
\* .eq("bank_account_id", ...).lte("date", transaction.date), added up.
runningBalance(u, transaction) ==
  SumAmounts({t \in Visible(transactions, u) :
                /\ t.bank_account_id = transaction.bank_account_id
                /\ t.date <= transaction.date})

\* { ...transaction, running_balance: runningBalance }
WithBalance(u, transaction) ==
  [f \in DOMAIN transaction \cup {"running_balance"} |->
     IF f = "running_balance" THEN runningBalance(u, transaction)
     ELSE transaction[f]]

\* getTransactions({}, limit, offset, orderBy, orderDirection) when the
\* ordered statement returns the caller's rows as `s`.
transactionsWithBalances(u, s, limit, offset) ==
  LET data == range(s, offset, offset + limit - 1)
  IN [i \in 1..Len(data) |-> WithBalance(u, data[i])]

\* getTransaction(id): the row with its running balance.
getTransaction(u, id) ==
  WithBalance(u, CHOOSE t \in Visible(transactions, u) : t.id = id)

\* getTransactionCount({}).
getTransactionCount(u) == Cardinality(Visible(transactions, u))

\* A request for page `p` of the list.
Query(p, size, sortField, sortDirection, awaited) ==
  [pc |-> "sent", page |-> p, pageSize |-> size, sortField |-> sortField,
   sortDirection |-> sortDirection, awaited |-> awaited]

\* What the actions of the route leave alone.
RouteFrame ==
  UNCHANGED <<bank_accounts, categories, transactions, nextTxnId, nextCatId,
              xfer, bulk, ensure, observed, resp, nextAccId, page, body, users,
              state, channels, realtimeChannelRef, skipRealtimeRef, timers,
              events, replicated, mutation>>

\* The route handler serves request i: 500 when a query throws, otherwise
\* { transactions, count } for offset (page - 1) * pageSize.
GET(u, i, failed) ==
  /\ i \in 1..Len(requests)
  /\ requests[i].pc = "sent"
  /\ LET r == requests[i]
         offset == (r.page - 1) * r.pageSize
     IN IF failed
        THEN requests' = [requests EXCEPT ![i] =
                            [pc |-> "answered", ok |-> FALSE, page |-> r.page,
                             pageSize |-> r.pageSize, sortField |-> r.sortField,
                             sortDirection |-> r.sortDirection,
                             awaited |-> r.awaited,
                             transactions |-> <<>>, count |-> 0]]
        ELSE \E s \in Ordered(Visible(transactions, u), r.sortField,
                              r.sortDirection = "asc") :
               requests' = [requests EXCEPT ![i] =
                              [pc |-> "answered", ok |-> TRUE, page |-> r.page,
                               pageSize |-> r.pageSize,
                               sortField |-> r.sortField,
                               sortDirection |-> r.sortDirection,
                               awaited |-> r.awaited,
                               transactions |->
                                 transactionsWithBalances(u, s, r.pageSize, offset),
                               count |-> getTransactionCount(u)]]
  /\ RouteFrame

\* A call of getTransaction(id) for a row the caller can see; the answer
\* takes the place of the answers read so far.
getTransactionCall(u, id) ==
  /\ id \in {t.id : t \in Visible(transactions, u)}
  /\ requests' = <<[pc |-> "read", ok |-> TRUE,
                    transactions |-> <<getTransaction(u, id)>>]>>
  /\ RouteFrame

\* An HTTP client asks for a page of the list; the answer read last is
\* dropped.
fetch(p, sortField, sortDirection) ==
  /\ \A i \in 1..Len(requests) : requests[i].pc # "sent"
  /\ requests' = <<Query(p, pageSize, sortField, sortDirection, FALSE)>>
  /\ RouteFrame

\* ------------------------------------------------ useInfiniteTransactions
\* fetchNextPage from state st gets as far as fetch(): it is not fetching,
\* and fetchPage's guard (hasInitialFetch && (isFetching || !hasMore)) lets
\* it through.
Sends(st) == ~st.isFetching /\ ~(st.hasInitialFetch /\ ~st.hasMore)

\* (fetchNextPage without its isFetching guard)
Sends_Unguarded(st) == ~(st.hasInitialFetch /\ (st.isFetching \/ ~st.hasMore))

\* page: Math.floor(skip / pageSize) + 1, sort by date, newest first.
PageOf(skip) == (skip \div pageSize) + 1

\* await fetchNextPage() and what follows it in initialize(), entered in
\* state st: either the request goes out and initialize waits for it, or
\* fetchNextPage returns at once and initialize finishes.
AwaitFetchNextPage(st) ==
  IF Sends(st)
  THEN /\ state' = [st EXCEPT !.isFetching = TRUE]
       /\ requests' = Append(requests,
                             Query(PageOf(Len(st.data)), pageSize, "date", "desc", TRUE))
  ELSE /\ state' = [st EXCEPT !.isLoading = FALSE, !.hasInitialFetch = TRUE]
       /\ UNCHANGED requests

\* initialize(), entered in state st.
Initialize(st) ==
  AwaitFetchNextPage([st EXCEPT !.isLoading = TRUE, !.isSuccess = FALSE,
                                !.data = <<>>])

\* reset(): the list is emptied and initialize() runs.
reset ==
  Initialize([state EXCEPT !.data = <<>>, !.count = 0,
                           !.hasInitialFetch = FALSE, !.isSuccess = FALSE,
                           !.hasMore = TRUE])

\* What the actions of the list store leave alone.
StoreFrame ==
  UNCHANGED <<bank_accounts, categories, transactions, nextTxnId, nextCatId,
              xfer, bulk, ensure, observed, resp, nextAccId, page, body, users,
              channels, realtimeChannelRef, skipRealtimeRef, timers, events,
              replicated, mutation>>

\* The effect of the hook: initialize() while !state.hasInitialFetch.
initialize ==
  /\ ~state.hasInitialFetch
  /\ Initialize(state)
  /\ StoreFrame

\* onLoadMore: fetchNextPage().
fetchNextPage ==
  /\ IF Sends(state)
     THEN /\ state' = [state EXCEPT !.isFetching = TRUE]
          /\ requests' = Append(requests,
                                Query(PageOf(Len(state.data)), pageSize,
                                      "date", "desc", FALSE))
     ELSE UNCHANGED <<state, requests>>
  /\ StoreFrame

\* onRefresh, onSuccess: reset().
resetTransactions ==
  /\ reset
  /\ StoreFrame

\* (the rows of a page appended as they come)
uniqueNewTransactions_All(newTransactions, data) == newTransactions

\* newTransactions.filter(t => !existingIds.has(t.id)).
uniqueNewTransactions(newTransactions, data) ==
  LET existingIds == {data[k].id : k \in 1..Len(data)}
      fresh(t) == t.id \notin existingIds
  IN SelectSeq(newTransactions, fresh)

\* The rest of fetchPage once request i is answered, and of the initialize()
\* that awaits it.
fetchPageResponse(i) ==
  /\ i \in 1..Len(requests)
  /\ requests[i].pc = "answered"
  /\ LET r == requests[i]
         unique == uniqueNewTransactions(r.transactions, state.data)
         receivedFewerThanRequested == Len(r.transactions) < pageSize
         noNewUniqueTransactions == Len(unique) = 0 /\ Len(state.data) > 0
         hasMorePages == /\ ~receivedFewerThanRequested
                         /\ ~noNewUniqueTransactions
                         /\ Len(state.data) + Len(unique) < r.count
         s1 == IF r.ok
               THEN [state EXCEPT !.data = state.data \o unique,
                                  !.count = r.count, !.isSuccess = TRUE,
                                  !.error = FALSE, !.hasMore = hasMorePages]
               ELSE [state EXCEPT !.error = TRUE, !.hasMore = FALSE]
         s2 == [s1 EXCEPT !.isFetching = FALSE]
     IN state' = IF r.awaited
                 THEN [s2 EXCEPT !.isLoading = FALSE, !.hasInitialFetch = TRUE]
                 ELSE s2
  /\ requests' = [k \in 1..(Len(requests) - 1) |->
                    IF k < i THEN requests[k] ELSE requests[k + 1]]
  /\ StoreFrame

\* currentTransactions.filter(t => !ids.includes(t.id)).
Without(data, ids) ==
  LET kept(t) == t.id \notin ids
  IN SelectSeq(data, kept)

\* currentTransactions.map(txn => ids.includes(txn.id) ? {...txn, ...} : txn),
\* the fields being those of `updates`.
Mapped(data, ids, updates) ==
  [k \in 1..Len(data) |->
     IF data[k].id \in ids
     THEN [f \in DOMAIN data[k] |->
             IF f \in DOMAIN updates THEN updates[f] ELSE data[k][f]]
     ELSE data[k]]

\* updateData(updater) with one of the two updaters.
updateData(ids, updates, remove) ==
  /\ state' = [state EXCEPT !.data = IF remove THEN Without(state.data, ids)
                                      ELSE Mapped(state.data, ids, updates)]
  /\ UNCHANGED requests
  /\ StoreFrame

\* ------------------------------------------------ TransactionsPageClient
\* Timers a page may have pending, and channels it may hold, before the
\* user starts another write.
MaxTimers == 4
MaxChannels == 1

\* A channel name not in use.
NewChannel == CHOOSE c \in 1..(Cardinality(channels) + 1) : c \notin channels

\* onSkipRealtime(skip): the flag is set; for skip = true the channel of
\* realtimeChannelRef (if any) is removed (disableRealtime) and
\* setTimeout(() => { enableRealtime(); skipRealtimeRef.current = false }, 2000)
\* is started.
onSkipRealtime(skip) ==
  /\ skipRealtimeRef' = skip
  /\ IF skip
     THEN /\ channels' = channels \ {realtimeChannelRef}
          /\ events' = events \ {realtimeChannelRef}
          /\ realtimeChannelRef' = NULL
          /\ timers' = Append(timers, "enableRealtime")
     ELSE UNCHANGED <<channels, events, realtimeChannelRef, timers>>

\* What the page and the table leave alone: the tables and the other pages.
PageFrame ==
  UNCHANGED <<bank_accounts, categories, transactions, nextTxnId, nextCatId,
              xfer, bulk, ensure, observed, nextAccId, page, body, users>>

\* The oldest timer fires: the callback of onSkipRealtime(true), which calls
\* enableRealtime() (a new channel is subscribed and kept in
\* realtimeChannelRef) and clears the flag, or the callback of a handler,
\* which calls onSkipRealtime(false).
Timeout ==
  /\ timers # <<>>
  /\ timers' = Tail(timers)
  /\ skipRealtimeRef' = FALSE
  /\ IF Head(timers) = "enableRealtime"
     THEN /\ channels' = channels \cup {NewChannel}
          /\ realtimeChannelRef' = NewChannel
     ELSE UNCHANGED <<channels, realtimeChannelRef>>
  /\ UNCHANGED <<state, requests, events, replicated, mutation, resp>>
  /\ PageFrame

\* The realtime service reads the changes of public.transactions and sends a
\* payload to every channel subscribed to them.
postgres_changes ==
  /\ replicated # transactions
  /\ replicated' = transactions
  /\ events' = events \cup channels
  /\ UNCHANGED <<state, requests, channels, realtimeChannelRef,
                 skipRealtimeRef, timers, mutation, resp>>
  /\ PageFrame

\* The callback of channel c: nothing while skipRealtimeRef is set,
\* resetTransactionsRef.current() otherwise.
payload(c) ==
  /\ c \in events
  /\ events' = events \ {c}
  /\ IF skipRealtimeRef THEN UNCHANGED <<state, requests>> ELSE reset
  /\ UNCHANGED <<channels, realtimeChannelRef, skipRealtimeRef, timers,
                 replicated, mutation, resp>>
  /\ PageFrame

\* -------------------------------------------------------- TransactionTable
\* The user may start a write: none is under way, and the page is within
\* the timers and channels followed here.
MayWrite ==
  /\ mutation.pc = "idle"
  /\ Len(timers) + 2 <= MaxTimers
  /\ Cardinality(channels) <= MaxChannels

ShownIds == {state.data[k].id : k \in 1..Len(state.data)}

\* A handler up to its fetch(): onSkipRealtime(true), the optimistic update,
\* and the request.
Optimistic(kind, ids, updates, remove) ==
  /\ MayWrite
  /\ ids # {}
  /\ ids \subseteq ShownIds
  /\ onSkipRealtime(TRUE)
  /\ state' = [state EXCEPT !.data = IF remove THEN Without(state.data, ids)
                                      ELSE Mapped(state.data, ids, updates)]
  /\ mutation' = [pc |-> "sent", kind |-> kind, ids |-> ids,
                  updates |-> updates, previousTransactions |-> state.data]
  /\ resp' = Resp("none", 0)
  /\ UNCHANGED <<requests, replicated>>
  /\ PageFrame

\* handleDeleteConfirm for the transaction of the dialog.
handleDeleteConfirm(id) == Optimistic("delete", {id}, <<>>, TRUE)

\* confirmBulkDelete of the transaction table, for the selected rows.
TransactionTable_confirmBulkDelete(ids) ==
  Optimistic("bulk-delete", ids, <<>>, TRUE)

\* handleBulkCategorize(categoryId) for the selected rows.
handleBulkCategorize(ids, categoryId) ==
  Optimistic("bulk-update", ids,
             [category_id |-> categoryId, transfer_to_account_id |-> NULL], FALSE)

\* handleSubmit of the transaction form editing transaction id: a new amount
\* and category.
TransactionForm_handleSubmit(id, amt, categoryId) ==
  Optimistic("edit", {id},
             [amount |-> amt, category_id |-> categoryId,
              transfer_to_account_id |-> NULL], FALSE)

\* The request of the handler reaches its route.
Served ==
  /\ mutation.pc = "sent"
  /\ resp = Resp("none", 0)
  /\ LET id == CHOOSE i \in mutation.ids : TRUE
     IN CASE mutation.kind = "delete" -> DELETE("u1", id)
          [] mutation.kind = "bulk-delete" -> BulkDelete("u1", mutation.ids)
          [] mutation.kind = "bulk-update" ->
               BulkUpdate("u1", mutation.ids, mutation.updates.category_id, NULL)
          [] mutation.kind = "edit" ->
               \E t \in {t \in transactions : t.id = id} :
                 PUT("u1", id, t.bank_account_id, t.date,
                     mutation.updates.amount, t.description,
                     mutation.updates.category_id, NULL)

\* The handler after its fetch(): on success setTimeout(() =>
\* onSkipRealtime(false), 2000); otherwise the rows of before the optimistic
\* update are put back and onSkipRealtime(false) is called.
Responded ==
  /\ mutation.pc = "sent"
  /\ resp # Resp("none", 0)
  /\ mutation' = MutationIdle
  /\ IF resp.status = 200
     THEN /\ timers' = Append(timers, "onSkipRealtime")
          /\ UNCHANGED <<state, skipRealtimeRef, channels, events,
                         realtimeChannelRef>>
     ELSE /\ state' = [state EXCEPT !.data =
                         IF mutation.kind = "edit"
                         THEN [k \in 1..Len(state.data) |->
                                 IF state.data[k].id \in mutation.ids
                                 THEN CHOOSE t \in {mutation.previousTransactions[j] :
                                                      j \in 1..Len(mutation.previousTransactions)} :
                                        t.id = state.data[k].id
                                 ELSE state.data[k]]
                         ELSE mutation.previousTransactions]
          /\ onSkipRealtime(FALSE)
  /\ UNCHANGED <<requests, replicated, resp>>
  /\ PageFrame

\* ------------------------------------------------------ specifications
\* The ledger: single-statement requests of one caller against the store.
Next ==
  \/ \E u \in Callers, b \in LedgerAccounts, d \in Dates, amt \in Amounts,
        desc \in Descriptions, c \in CategoryInputs :
          POST(u, b, d, amt, desc, c, NULL)
  \/ \E u \in Callers, id \in TxnIdInputs, b \in LedgerAccounts, d \in Dates,
        amt \in Amounts, desc \in Descriptions, c \in CategoryInputs,
        to \in LedgerAccounts :
          PUT(u, id, b, d, amt, desc, c, to)
  \/ \E u \in Callers, id \in TxnIdInputs : DELETE(u, id)
  \/ \E u \in Callers, ids \in SUBSET TxnIdInputs : BulkDelete(u, ids)
  \/ \E u \in Callers, ids \in SUBSET TxnIdInputs, c \in CategoryInputs,
        to \in LedgerAccounts :
          BulkUpdate(u, ids, c, to)
  \/ \E u \in Callers, id \in LedgerAccounts : deleteBankAccount(u, id)

Spec == InitLedger /\ [][Next]_vars

\* Transfer creation, step by step, beside a reader and an account deletion.
NextTransfer ==
  \/ \E u \in Callers, b \in AccountInputs, d \in Dates, amt \in Amounts,
        desc \in Descriptions, c \in CategoryInputs, to \in 1..3 :
          POST(u, b, d, amt, desc, c, to)
  \/ \E e \in BOOLEAN : XferInsertOutgoing(e)
  \/ \E e \in BOOLEAN : XferInsertIncoming(e)
  \/ \E e \in BOOLEAN : XferRollback(e)
  \/ \E u \in Callers : getTransactions(u)
  \/ \E u \in Callers, id \in AccountInputs : deleteBankAccount(u, id)

SpecTransfer == InitLedger /\ [][NextTransfer]_vars

\* The import request, candidate by candidate.
NextImport ==
  \/ \E u \in Callers, n \in 0..MaxBatch :
       POST_bulk(u, n) /\ UNCHANGED <<page, view, users, body>>
  \/ \E b \in AccountInputs, d \in Dates, amt \in Amounts,
        desc \in Descriptions, c \in CategoryInputs, to \in AccountInputs :
          BulkRow(b, d, amt, desc, c, to)
  \/ BulkReturn
  \/ \E e \in BOOLEAN : XferInsertOutgoing(e)
  \/ \E e \in BOOLEAN : XferInsertIncoming(e)
  \/ \E e \in BOOLEAN : XferRollback(e)

SpecImport == InitLedger /\ [][NextImport]_vars

\* Category deletion beside the requests that reassign or delete transactions.
NextCategory ==
  \/ \E u \in Callers, id \in CategoryInputs : deleteCategory(u, id)
  \/ \E u \in Callers, d \in Dates, desc \in Descriptions, c \in CategoryInputs :
          POST(u, 1, d, 1, desc, c, NULL)
  \/ \E u \in Callers, id \in TxnIdInputs, d \in Dates, desc \in Descriptions,
        c \in CategoryInputs :
          PUT(u, id, 1, d, 1, desc, c, NULL)
  \/ \E u \in Callers, id \in TxnIdInputs : DELETE(u, id)
  \/ \E u \in Callers, parentId \in ParentInputs :
       /\ CustomCount < MaxCustom
       /\ createCategory(u, "Custom", parentId)
  \/ \E u \in Callers : deleteBankAccount(u, 1)

SpecCategory == InitLedger /\ [][NextCategory]_vars

\* New owners: no account, no category, and the dashboard requests of an
\* owner come one after the other.
InitSeed ==
  /\ bank_accounts = {}
  /\ categories = {}
  /\ transactions = {}
  /\ nextTxnId = 1
  /\ nextCatId = 1
  /\ nextAccId = 1
  /\ tz = 0
  /\ InitPage
  /\ InitView
  /\ users = Owners
  /\ xfer = XferIdle
  /\ bulk = BulkIdle
  /\ ensure = [s \in EnsureCalls |-> EnsureIdle]
  /\ observed = {}
  /\ resp = Resp("none", 0)

NoEnsureRunning == \A s \in EnsureCalls : ensure[s].pc = "idle"

NextSeed ==
  \/ \E s \in EnsureCalls, u \in Owners : NoEnsureRunning /\ EnsureCheck(s, u)
  \/ \E s \in EnsureCalls : EnsureSeed(s)
  \/ \E u \in Owners, parentId \in ParentInputs :
       /\ NoEnsureRunning
       /\ CustomCount < MaxCustom
       /\ createCategory(u, "Custom", parentId)

SpecSeed == InitSeed /\ [][NextSeed]_vars

\* Sign-up and first dashboard visits: u1 signed up before the trigger was
\* installed, u2 has not signed up; the dashboard requests of an owner (two
\* tabs, or page and layout) run side by side.
InitSignUp ==
  /\ bank_accounts = {}
  /\ categories = {}
  /\ transactions = {}
  /\ nextTxnId = 1
  /\ nextCatId = 1
  /\ nextAccId = 1
  /\ tz = 0
  /\ InitPage
  /\ InitView
  /\ users = {"u1"}
  /\ xfer = XferIdle
  /\ bulk = BulkIdle
  /\ ensure = [s \in EnsureCalls |-> EnsureIdle]
  /\ observed = {}
  /\ resp = Resp("none", 0)

NextSignUp ==
  \/ \E u \in Owners : handle_new_user(u)
  \/ \E s \in EnsureCalls : \E u \in users : EnsureCheck(s, u)
  \/ \E s \in EnsureCalls : EnsureSeed(s)
  \/ \E u \in users, parentId \in ParentInputs :
       /\ CustomCount < MaxCustom
       /\ createCategory(u, "Custom", parentId)

SpecSignUp == InitSignUp /\ [][NextSignUp]_vars

\* Accounts are deleted beside plain transactions and transfers between the
\* accounts.
NextClose ==
  \/ \E u \in Callers, b \in 1..3, desc \in Descriptions, to \in AccountInputs :
       POST(u, b, 1, 1, desc, 1, to)
  \/ \E e \in BOOLEAN : XferInsertOutgoing(e)
  \/ \E e \in BOOLEAN : XferInsertIncoming(e)
  \/ \E e \in BOOLEAN : XferRollback(e)
  \/ \E u \in Callers, id \in AccountInputs : deleteBankAccount(u, id)

SpecClose == InitLedger /\ [][NextClose]_vars

\* The category requests of one caller: create, update, delete.
ForestIds == 0..(3 + MaxCustom)

NextForest ==
  \/ \E u \in Callers, parentId \in ForestIds :
       /\ nextCatId <= 3 + MaxCustom
       /\ createCategory(u, "Custom", parentId)
  \/ \E u \in Callers, id \in ForestIds, parentId \in ForestIds :
       updateCategory(u, id, "Custom", parentId)
  \/ \E u \in Callers, id \in ForestIds : deleteCategory(u, id)

SpecForest == InitLedger /\ [][NextForest]_vars

\* Account creation beside the deletion of categories and accounts.
AccountNames == {"", "A4"}

NextAccount ==
  \/ \E u \in Callers, name \in AccountNames, failed \in SUBSET StoreCalls :
       /\ nextAccId <= 3 + MaxAccounts
       /\ createBankAccount(u, name, failed)
  \/ \E u \in Callers, id \in CategoryInputs : deleteCategory(u, id)
  \/ \E u \in Callers, id \in 1..(3 + MaxAccounts) : deleteBankAccount(u, id)

SpecAccount == InitLedger /\ [][NextAccount]_vars

\* The requests over a set of transactions, beside those that create the
\* rows and that take the counterpart account away.
NextBulk ==
  \/ \E u \in Callers, d \in Dates, desc \in Descriptions :
          POST(u, 1, d, 1, desc, 1, NULL)
  \/ \E u \in Callers, ids \in SUBSET TxnIdInputs : BulkDelete(u, ids)
  \/ \E u \in Callers, ids \in SUBSET TxnIdInputs, c \in 0..2,
        to \in {NULL, 2} :
          BulkUpdate(u, ids, c, to)
  \/ \E u \in Callers : deleteBankAccount(u, 2)

SpecBulk == InitLedger /\ [][NextBulk]_vars

\* Deletion of single transactions, among them halves of transfers.
NextDelete ==
  \/ \E u \in Callers, d \in Dates, amt \in Amounts, desc \in Descriptions,
        c \in 1..2, to \in {NULL, 2} :
          POST(u, 1, d, amt, desc, c, to)
  \/ \E e \in BOOLEAN : XferInsertOutgoing(e)
  \/ \E e \in BOOLEAN : XferInsertIncoming(e)
  \/ \E e \in BOOLEAN : XferRollback(e)
  \/ \E u \in Callers, id \in TxnIdInputs : DELETE(u, id)

SpecDelete == InitLedger /\ [][NextDelete]_vars

\* The upload form: a file is chosen and parsed, in some timezone.
InitBrowser == InitStore /\ tz \in TimezoneOffsets

NextParse ==
  \/ /\ file = <<>>
     /\ pendingTransactions = <<>>
     /\ \E rows \in Files : handleFileChange(rows)
  \/ \E bankAccountId \in {NULL, 1} : handleSubmit(bankAccountId)

SpecParse == InitBrowser /\ [][NextParse]_vars

\* From the upload to the import: the staged rows are edited, categorized,
\* selected and deleted on the page, and imported.
NextStaging ==
  \/ /\ file = <<>>
     /\ pendingTransactions = <<>>
     /\ \E rows \in StagedFiles : handleFileChange(rows)
  \/ \E bankAccountId \in {NULL, 1} : handleSubmit(bankAccountId)
  \/ CategorizationPageClient
  \/ \E index \in 1..MaxRows, categoryId \in 1..2 :
       updateTransaction(index, [categoryId |-> categoryId])
  \/ \E index \in 1..MaxRows : toggleRowSelection(index)
  \/ selectAll
  \/ \E categoryId \in 1..2 : bulkCategorize(categoryId)
  \/ confirmBulkDelete
  \/ \E index \in 1..MaxRows : confirmSingleDelete(index)
  \/ \E u \in Callers : handleImport(u)
  \/ BulkRowOfRequest
  \/ BulkReturn
  \/ handleImportResponse

SpecStaging == InitLedger /\ [][NextStaging]_vars

\* The list route: one caller creates transactions on two accounts and two
\* dates and reads pages of the list and single transactions.
NextListing ==
  \/ \E b \in 1..2, d \in ListDates, amt \in {-1, 1} :
       POST("u1", b, d, amt, "Move funds", 1, NULL)
  \/ \E p \in 1..2, f \in SortFields, dir \in SortDirections : fetch(p, f, dir)
  \/ \E failed \in BOOLEAN : GET("u1", 1, failed)
  \/ \E id \in TxnIdInputs : getTransactionCall("u1", id)

SpecListing == InitLedger /\ [][NextListing]_vars

\* u1's ledger after n transactions on account A1, one a day.
Ledger(n) ==
  {[id |-> i, user_id |-> "u1", bank_account_id |-> 1, date |-> i,
    amount |-> 1, description |-> "Move funds", category_id |-> 1,
    transfer_to_account_id |-> NULL] : i \in 1..n}

\* The accounts and categories of InitStore with a ledger of u1; the
\* transactions page has just been mounted.
InitList ==
  /\ bank_accounts = {[id |-> 1, user_id |-> "u1", name |-> "A1"],
                      [id |-> 2, user_id |-> "u1", name |-> "A2"],
                      [id |-> 3, user_id |-> "u2", name |-> "A3"]}
  /\ categories = {[id |-> 1, user_id |-> "u1", name |-> "Transfers",
                    parent_id |-> NULL, is_transfer_category |-> FALSE],
                   [id |-> 2, user_id |-> "u1", name |-> "Transfer to A2",
                    parent_id |-> 1, is_transfer_category |-> TRUE],
                   [id |-> 3, user_id |-> "u2", name |-> "Transfers",
                    parent_id |-> NULL, is_transfer_category |-> FALSE]}
  /\ \E n \in 0..MaxTxns : transactions = Ledger(n) /\ nextTxnId = n + 1
  /\ nextCatId = 4
  /\ nextAccId = 4
  /\ tz = 0
  /\ InitPage
  /\ InitView
  /\ users = Owners
  /\ xfer = XferIdle
  /\ bulk = BulkIdle
  /\ ensure = [s \in EnsureCalls |-> EnsureIdle]
  /\ observed = {}
  /\ resp = Resp("none", 0)

\* The list store over a ledger nobody writes to.
NextPrefix ==
  \/ initialize
  \/ fetchNextPage
  \/ resetTransactions
  \/ \E i \in 1..MaxTxns, failed \in BOOLEAN : GET("u1", i, failed)
  \/ \E i \in 1..MaxTxns : fetchPageResponse(i)

SpecPrefix == InitList /\ [][NextPrefix]_vars

\* The list store with optimistic updates of the table, while another tab
\* of u1 creates and deletes transactions.
NextInfinite ==
  \/ initialize
  \/ fetchNextPage
  \/ resetTransactions
  \/ \E i \in 1..MaxTxns, failed \in BOOLEAN : GET("u1", i, failed)
  \/ \E i \in 1..MaxTxns : fetchPageResponse(i)
  \/ \E id \in TxnIdInputs, remove \in BOOLEAN :
       updateData({id}, [category_id |-> 2], remove)
  \/ POST("u1", 1, 1, 1, "Move funds", 1, NULL)
  \/ \E id \in TxnIdInputs : DELETE("u1", id)

SpecInfinite == InitList /\ [][NextInfinite]_vars

\* The transactions page of u1, mounted over a ledger: its channel is
\* subscribed and the realtime service is up to date.
InitTable ==
  /\ bank_accounts = {[id |-> 1, user_id |-> "u1", name |-> "A1"],
                      [id |-> 2, user_id |-> "u1", name |-> "A2"],
                      [id |-> 3, user_id |-> "u2", name |-> "A3"]}
  /\ categories = {[id |-> 1, user_id |-> "u1", name |-> "Transfers",
                    parent_id |-> NULL, is_transfer_category |-> FALSE],
                   [id |-> 2, user_id |-> "u1", name |-> "Transfer to A2",
                    parent_id |-> 1, is_transfer_category |-> TRUE],
                   [id |-> 3, user_id |-> "u2", name |-> "Transfers",
                    parent_id |-> NULL, is_transfer_category |-> FALSE]}
  /\ transactions = Ledger(MaxTxns)
  /\ nextTxnId = MaxTxns + 1
  /\ nextCatId = 4
  /\ nextAccId = 4
  /\ tz = 0
  /\ InitPage
  /\ state = initialState
  /\ requests = <<>>
  /\ channels = {1}
  /\ realtimeChannelRef = 1
  /\ skipRealtimeRef = FALSE
  /\ timers = <<>>
  /\ events = {}
  /\ replicated = transactions
  /\ mutation = MutationIdle
  /\ users = Owners
  /\ xfer = XferIdle
  /\ bulk = BulkIdle
  /\ ensure = [s \in EnsureCalls |-> EnsureIdle]
  /\ observed = {}
  /\ resp = Resp("none", 0)

\* What the browser and the services do by themselves.
TableSystem ==
  \/ initialize
  \/ \E i \in 1..MaxTxns : GET("u1", i, FALSE)
  \/ \E i \in 1..MaxTxns : fetchPageResponse(i)
  \/ Served
  \/ Responded
  \/ Timeout
  \/ postgres_changes
  \/ \E c \in 1..(MaxChannels + 1) : payload(c)

\* The transactions page: the list, the realtime feed and the bulk actions of
\* the table on the rows shown.
NextTable ==
  \/ TableSystem
  \/ fetchNextPage
  \/ TransactionTable_confirmBulkDelete(ShownIds)
  \/ \E c \in {2, 4} : handleBulkCategorize(ShownIds, c)

SpecTable == InitTable /\ [][NextTable]_vars

\* The transactions page: the list, the realtime feed, and single rows
\* deleted and edited.
NextRefresh ==
  \/ TableSystem
  \/ fetchNextPage
  \/ \E id \in TxnIdInputs : handleDeleteConfirm(id)
  \/ TransactionForm_handleSubmit(1, 2, 1)

SpecRefresh == InitTable /\ [][NextRefresh]_vars

\* The same, where a request that was sent is served and answered, a timer
\* that was started fires, and a change and a payload are delivered; the
\* user need not do anything.
SpecRefreshFair ==
  /\ SpecRefresh
  /\ WF_vars(initialize)
  /\ WF_vars(\E i \in 1..MaxTxns : GET("u1", i, FALSE))
  /\ WF_vars(\E i \in 1..MaxTxns : fetchPageResponse(i))
  /\ WF_vars(Served)
  /\ WF_vars(Responded)
  /\ WF_vars(Timeout)
  /\ WF_vars(postgres_changes)
  /\ WF_vars(\E c \in 1..(MaxChannels + 1) : payload(c))

\* ================================================================ claims
StoredOn(account) == {t \in transactions : t.bank_account_id = account}

\* C1: the balance an owner is shown for each of their accounts equals the
\* sum of `amount` over the transactions stored with that bank_account_id,
\* and is 0 when there is none.
C1_BalanceIsSumOfStored ==
  \A a \in bank_accounts :
    getBankAccountWithBalance(a.user_id, a.id, FALSE) = SumAmounts(StoredOn(a.id))

Contribution(rows, account) ==
  SumAmounts({t \in rows : t.bank_account_id = account})

\* C2: a createTransferTransaction that returns successfully has added two
\* transactions with the same date and category, -|amount| on `from` pointing
\* to `to` and +|amount| on `to` pointing to `from` with the description
\* "Transfer from " + description, so that the two together lower the balance
\* of `from` by |amount| and raise the balance of `to` by |amount|.
C2_TransferSymmetry ==
  [][(xfer.pc = "insert_incoming" /\ xfer'.pc = "idle"
        /\ nextTxnId' = nextTxnId + 1)
     => \E out \in transactions, inc \in transactions' \ transactions :
          /\ transactions' = transactions \cup {inc}
          /\ out.id = xfer.outgoing
          /\ out.bank_account_id = xfer.from
          /\ out.amount = -Abs(xfer.amount)
          /\ out.transfer_to_account_id = xfer.to
          /\ inc.bank_account_id = xfer.to
          /\ inc.amount = Abs(xfer.amount)
          /\ inc.transfer_to_account_id = xfer.from
          /\ inc.description = "Transfer from " \o xfer.description
          /\ out.date = xfer.date /\ inc.date = xfer.date
          /\ out.category_id = xfer.category /\ inc.category_id = xfer.category
          /\ Contribution({out, inc}, xfer.from) = -Abs(xfer.amount)
          /\ Contribution({out, inc}, xfer.to) = Abs(xfer.amount)]_vars

\* C3: when createTransferTransaction returns the error of the incoming
\* insert, the outgoing transaction is no longer in the store, whichever store
\* calls succeeded or failed.
C3_RollbackGuaranteed ==
  (resp.op = "POST_transfer" /\ resp.status = 500 /\ resp.failed = "incoming")
    => resp.outgoing \notin TxnIds

\* C4: no getTransactions call made while a createTransferTransaction is in
\* flight returns the outgoing half without the incoming half.
C4_TransferAtomicForReaders ==
  xfer.pc \in {"insert_incoming", "rollback"} => xfer.outgoing \notin observed

\* C5: every transaction whose category is a transfer category has a
\* transfer_to_account_id that is set and differs from its bank_account_id.
C5_TransferCategoryInvariant ==
  \A t \in transactions :
    Category(t.category_id).is_transfer_category
      => /\ t.transfer_to_account_id # NULL
         /\ t.transfer_to_account_id # t.bank_account_id

\* C6: whatever amount is supplied, the outgoing half a transfer stores is
\* strictly negative and the incoming half strictly positive; amount 0 stores
\* no transaction.
C6_SignConvention ==
  [][\A t \in transactions' \ transactions :
       /\ xfer.pc = "insert_outgoing" => t.amount < 0
       /\ xfer.pc = "insert_incoming" => t.amount > 0]_vars

\* C7: POST /api/transactions without a transfer destination and with
\* amount 0 is answered with a validation error and stores nothing.
C7_ZeroAmountRejected ==
  [][\A u \in Callers, b \in LedgerAccounts, d \in Dates,
        desc \in Descriptions, c \in CategoryInputs :
       POST(u, b, d, 0, desc, c, NULL)
         => resp'.status = 400 /\ transactions' = transactions]_vars

\* C8: the account, the category and the transfer counterpart account of
\* every transaction belong to the user the transaction belongs to.
C8_OwnerScoping ==
  \A t \in transactions :
    /\ Account(t.bank_account_id).user_id = t.user_id
    /\ Category(t.category_id).user_id = t.user_id
    /\ t.transfer_to_account_id # NULL
         => Account(t.transfer_to_account_id).user_id = t.user_id

Owns(u, id) == \E c \in categories : c.id = id /\ c.user_id = u

UserCategories(cats, u) == {c \in cats : c.user_id = u}

\* (name, name of the parent) of each of the categories `cats`.
Shape(cats) ==
  {<<c.name, IF c.parent_id = NULL THEN ""
             ELSE (CHOOSE p \in cats : p.id = c.parent_id).name>> : c \in cats}

DefaultShape ==
  {<<DefaultCategories[i].name,
     IF DefaultCategories[i].parent = 0 THEN ""
     ELSE DefaultCategories[DefaultCategories[i].parent].name>> :
       i \in 1..Len(DefaultCategories)}

Below(id) == Cascade({c.id : c \in {c \in categories : c.parent_id = id}})

\* C11: no category is its own parent or lies below itself, so that
\* following parent_id from any category ends at a root after finitely many
\* steps, whatever createCategory, updateCategory and deleteCategory did.
C11_ForestAcyclic ==
  \A c \in categories : c.id \notin Below(c.id)

\* C12: every createBankAccount(name) that returns the account leaves a
\* category "Transfer to " + name with is_transfer_category = true whose
\* parent is a root category "Transfers" of the same owner; when that
\* category is not created the operation does not return the account.
C12_TransferCategoryProvisioned ==
  [][(resp'.op = "createBankAccount" /\ resp'.status = 201
        /\ nextAccId' = nextAccId + 1)
     => \E c \in categories', r \in categories' :
          /\ c.name = "Transfer to " \o resp'.name
          /\ c.is_transfer_category
          /\ c.user_id = resp'.user
          /\ c.parent_id = r.id
          /\ r.name = "Transfers" /\ r.parent_id = NULL
          /\ r.user_id = resp'.user]_vars

\* C13: when DELETE bulk-delete or PATCH bulk-update has answered, with
\* success or with an error, either every listed transaction of the caller
\* is deleted (has the new category and counterpart) or every one of them
\* is as it was.
C13_BulkAllOrNothing ==
  [][\A u \in Callers, ids \in SUBSET TxnIdInputs :
       LET listed == {t \in transactions : t.id \in ids /\ t.user_id = u}
       IN /\ BulkDelete(u, ids)
               => \/ listed \cap transactions' = {}
                  \/ listed \subseteq transactions'
          /\ \A c \in 0..2, to \in {NULL, 2} :
               BulkUpdate(u, ids, c, to)
                 => \/ \A t \in listed : \E n \in transactions' :
                         /\ n.id = t.id
                         /\ n.category_id = c
                         /\ n.transfer_to_account_id = to
                    \/ listed \subseteq transactions']_vars

\* A bulk update of two stored transactions has been refused.
C13_Witness ==
  /\ resp.op = "bulk-update"
  /\ resp.status = 500
  /\ Cardinality({t \in transactions : t.id \in resp.ids}) = 2

\* C14: deleteTransaction(id) takes away the caller's transaction with that
\* id and nothing else: every other transaction, the other half of a
\* transfer included, stays as it is, and the balance of each account changes
\* by minus the amount of the deleted transaction if it was on that account
\* and not at all otherwise.
C14_DeleteFrame ==
  [][\A u \in Callers, id \in TxnIdInputs :
       DELETE(u, id)
         => LET gone == {t \in transactions : t.id = id /\ t.user_id = u}
            IN /\ transactions' = transactions \ gone
               /\ \A a \in AccountIds :
                    SumAmounts({t \in Visible(transactions', u) :
                                  t.bank_account_id = a})
                      = calculate_account_balance(u, a)
                        - SumAmounts({t \in gone : t.bank_account_id = a})]_vars

\* The outgoing half of a transfer has been deleted and the incoming half is
\* still stored, pointing at the account the transfer came from.
C14_Witness ==
  /\ resp.op = "DELETE"
  /\ resp.id \notin TxnIds
  /\ \E t \in transactions :
       /\ t.id = resp.id + 1
       /\ t.description = "Transfer from Move funds"
       /\ t.amount = 1
       /\ t.transfer_to_account_id = 1

\* C15: of the candidates the categorization page submits to
\* POST /api/transactions/bulk, each one whose category is a transfer
\* category carries a destination account and goes through
\* createTransferTransaction, and each one whose category is not goes
\* through createTransaction and is stored as a single transaction.
C15_ImportRouting ==
  [][BulkRowOfRequest
     => LET txn == body[Len(body) - bulk.remaining + 1]
        IN IF Category(txn.category_id).is_transfer_category
           THEN /\ txn.transfer_to_account_id # NULL
                /\ xfer'.pc = "insert_outgoing"
                /\ transactions' = transactions
           ELSE /\ xfer' = xfer
                /\ Cardinality(transactions' \ transactions) = 1]_vars

\* C16: when POST /api/transactions/bulk answers, every submitted candidate
\* has been counted once: `imported` is the number of candidates committed,
\* `errors` has one entry for each candidate that failed, and the two add up
\* to the number of candidates submitted.
C16_ImportAccounting ==
  [][BulkReturn
     => /\ resp'.imported + resp'.errors = resp'.length
        /\ resp'.imported <= resp'.length]_vars

\* A step of the upload form or of the categorization table before import.
StagingStep ==
  \/ \E rows \in StagedFiles : handleFileChange(rows)
  \/ \E bankAccountId \in {NULL, 1} : handleSubmit(bankAccountId)
  \/ CategorizationPageClient
  \/ \E index \in 1..MaxRows, categoryId \in 1..2 :
       updateTransaction(index, [categoryId |-> categoryId])
  \/ \E index \in 1..MaxRows : toggleRowSelection(index)
  \/ selectAll
  \/ \E categoryId \in 1..2 : bulkCategorize(categoryId)
  \/ confirmBulkDelete
  \/ \E index \in 1..MaxRows : confirmSingleDelete(index)

\* C17: parsing a file, staging its candidates, and editing, categorizing,
\* selecting or deleting staged candidates leave the stored transactions and
\* every account balance as they are; the store changes only while an import
\* the user has triggered is under way.
C17_StagingNoSideEffects ==
  [][/\ StagingStep
          => /\ transactions' = transactions
             /\ \A u \in Callers, a \in AccountIds :
                  SumAmounts({t \in Visible(transactions', u) :
                                t.bank_account_id = a})
                    = calculate_account_balance(u, a)
     /\ transactions' # transactions => isImporting]_vars

\* Two candidates were staged, one has been deleted on the page and the other
\* categorized; nothing is stored and no import is under way.
C17_Witness ==
  /\ pendingTransactions # <<>>
  /\ Len(pendingTransactions[1].transactions) = 2
  /\ Len(editedTransactions) = 1
  /\ editedTransactions[1].categoryId # NULL
  /\ ~isImporting
  /\ transactions = {}

\* The numbers of a date field MM/DD/YYYY.
DateNumbers(str) ==
  LET parts == split(trim(str))
  IN [month |-> parseInt(parts[1]), day |-> parseInt(parts[2]),
      year |-> parseInt(parts[3])]

\* The field names a day of the calendar.
ValidCalendarDate(str) ==
  /\ Len(split(trim(str))) = 3
  /\ LET n == DateNumbers(str)
     IN /\ ~isNaN(n.month) /\ ~isNaN(n.day) /\ ~isNaN(n.year)
        /\ n.month.val \in 1..12
        /\ n.day.val \in 1..MonthLength(n.year.val, n.month.val)

Candidates == {result.transactions[i] : i \in 1..Len(result.transactions)}
Rejected == {result.errors[i] : i \in 1..Len(result.errors)}

\* C18: with d and c the debit and credit of a row (blank or unparseable
\* counted as 0), the candidate's amount is -d when d > 0 and c = 0, c when
\* c > 0 and d = 0, 0 when both are 0, and, when both are non-zero, c if
\* c > 0 and -d otherwise; no row is rejected for its amounts.
C18_AmountDerivation ==
  /\ \A t \in Candidates :
       LET d == AmountOf(t.rawRow[3])
           c == AmountOf(t.rawRow[4])
       IN /\ (d > 0 /\ c = 0) => t.amount = -d
          /\ (c > 0 /\ d = 0) => t.amount = c
          /\ (d = 0 /\ c = 0) => t.amount = 0
          /\ (d # 0 /\ c # 0) => t.amount = IF c > 0 THEN c ELSE -d
  /\ \A e \in Rejected :
       \/ Len(e.data) < 5
       \/ Len(split(trim(e.data[1]))) # 3
       \/ \E part \in {1, 2, 3} : isNaN(parseInt(split(trim(e.data[1]))[part]))
       \/ trim(e.data[2]) = <<>>

\* A file has been parsed into a candidate with a debit and a credit, both
\* positive, and a candidate with neither.
C18_Witness ==
  /\ \E t \in Candidates :
       AmountOf(t.rawRow[3]) > 0 /\ AmountOf(t.rawRow[4]) > 0
  /\ \E t \in Candidates :
       AmountOf(t.rawRow[3]) = 0 /\ AmountOf(t.rawRow[4]) = 0 /\ t.amount = 0

\* C19: every candidate comes from a row with at least 5 fields, a date that
\* is a day of the calendar in MM/DD/YYYY, and a description that is not
\* empty after trimming; rows that lack one of these are in `errors`.
C19_RowRejection ==
  \A t \in Candidates :
    /\ Len(t.rawRow) >= 5
    /\ ValidCalendarDate(t.rawRow[1])
    /\ trim(t.rawRow[2]) # <<>>

\* C20: the date of a candidate is YYYY-MM-DD with the year, month and day
\* of the row's MM/DD/YYYY, in whatever timezone the file is parsed.
C20_DateRoundTrip ==
  \A t \in Candidates :
    ValidCalendarDate(t.rawRow[1])
      => LET n == DateNumbers(t.rawRow[1])
         IN t.date = Digits(n.year.val, 4) \o <<"-">> \o Digits(n.month.val, 2)
                       \o <<"-">> \o Digits(n.day.val, 2)
\* C21: the running_balance that getTransactions and getTransaction attach to
\* a transaction T is the sum of the amounts of the transactions on T's
\* account at or before T in (date, id) order, so that transactions of one
\* date get successive cumulative values in id order.
C21_RunningBalance ==
  [][((\E failed \in BOOLEAN : GET("u1", 1, failed))
        \/ \E id \in TxnIdInputs : getTransactionCall("u1", id))
      => \A k \in 1..Len(requests'[1].transactions) :
           requests'[1].transactions[k].running_balance
             = runningBalance_UpToRow("u1", requests'[1].transactions[k])]_vars

\* C22: for a fixed store, getTransactions with given sort field, direction,
\* page and page size returns the same rows in the same order on every call:
\* the rows in the order of the sort key with ties in id order.
C22_DeterministicListing ==
  [][GET("u1", 1, FALSE)
      => \E s \in Ordered_ThenById(Visible(transactions, "u1"),
                                   requests[1].sortField,
                                   requests[1].sortDirection = "asc") :
           requests'[1].transactions
             = transactionsWithBalances("u1", s, requests[1].pageSize,
                                        (requests[1].page - 1) * requests[1].pageSize)]_vars

\* C27: the infinite list never holds a transaction twice, and at most one
\* page request is in flight.
C27_NoDuplicateRows ==
  /\ \A i, j \in 1..Len(state.data) :
       state.data[i].id = state.data[j].id => i = j
  /\ Len(requests) <= 1

\* A page came back with only rows the list already held: they were dropped
\* and the list stopped short of the count.
C27_Witness ==
  /\ requests = <<>>
  /\ state.hasInitialFetch
  /\ ~state.hasMore
  /\ ~state.error
  /\ 0 < Len(state.data)
  /\ Len(state.data) < state.count

\* The rows the server returns for the list of u1, newest first.
ServerRows ==
  LET s == CHOOSE s \in Ordered(Visible(transactions, "u1"), "date", FALSE) : TRUE
  IN transactionsWithBalances("u1", s, Len(s), 0)

IsPrefix(a, b) == Len(a) <= Len(b) /\ a = SubSeq(b, 1, Len(a))

\* C28: with an unchanged store, whenever no request is in flight the list
\* is the first rows of the server's result, also after a reset during a
\* request; and once hasMore is false without an error the list holds every
\* matching transaction.
C28_PrefixOfServerResult ==
  requests = <<>>
    => /\ IsPrefix(state.data, ServerRows)
       /\ (~state.hasMore /\ ~state.error) => Len(state.data) = Len(ServerRows)

\* The write of the table has been answered with success.
Written == mutation.pc = "idle" /\ resp.status = 200

\* The rows shown are the first rows of what the list route returns for the
\* store as it is.
Fresh ==
  /\ requests = <<>>
  /\ IsPrefix(state.data, ServerRows)

\* C23: after a successful edit or delete from the transaction table the rows
\* shown, running_balance included, eventually are the rows getTransactions
\* returns for the store after the write.
C23_NoStaleBalance == Written ~> Fresh

\* C29: at any time at most one realtime channel is subscribed.
C29_SingleSubscription == Cardinality(channels) <= 1

\* C30: while a write of the table is between its optimistic update and its
\* response, no realtime payload makes the list reset.
C30_NoReloadDuringWrite ==
  [][\A c \in 1..(MaxChannels + 1) :
       (payload(c) /\ ~skipRealtimeRef) => mutation.pc # "sent"]_vars


DefaultNames == {DefaultCategories[i].name : i \in 1..Len(DefaultCategories)}

\* C24: whatever the interleaving of the ensureDefaultCategories calls and of
\* the sign-up trigger handle_new_user for an owner, the owner holds the
\* default taxonomy at most once: no default category name appears twice
\* under the same parent, and no default name more often than the taxonomy
\* has it.
C24_SeededOnce ==
  \A u \in Owners :
    /\ \A c1, c2 \in UserCategories(categories, u) :
         (c1.name \in DefaultNames /\ c1.name = c2.name
            /\ c1.parent_id = c2.parent_id) => c1.id = c2.id
    /\ Cardinality({c \in UserCategories(categories, u) :
                      c.name \in DefaultNames}) <= Len(DefaultCategories)


\* C25: a staged candidate leaves the staging area (the rows of the page and
\* the pendingTransactions entry of sessionStorage) only in a step that is a
\* delete by the user or when a stored transaction carries its date, amount,
\* description and category; rows that were uncategorized, unselected or
\* refused by the import are still staged after it.
C25_StagedNotLost ==
  [][\A i \in 1..Len(editedTransactions) :
       LET row == editedTransactions[i]
           left == \/ ~\E j \in 1..Len(editedTransactions') :
                          /\ editedTransactions'[j].date = row.date
                          /\ editedTransactions'[j].amount = row.amount
                          /\ editedTransactions'[j].description = row.description
                   \/ pendingTransactions # <<>> /\ pendingTransactions' = <<>>
           deleted == \/ confirmBulkDelete
                      \/ \E index \in 1..MaxRows : confirmSingleDelete(index)
           committed == /\ row.categoryId # NULL
                        /\ \E t \in transactions' :
                             /\ t.date = row.date
                             /\ t.amount = row.amount
                             /\ t.description = row.description
                             /\ t.category_id = row.categoryId
       IN left => (deleted \/ committed)]_vars


\* C26: a deleteBankAccount(A) that deletes A removes the transactions with
\* bank_account_id = A, sets transfer_to_account_id to null on the
\* transactions of other accounts that pointed to A, and changes nothing
\* else: the other transactions keep every other field, the other accounts
\* their rows and balances, the categories stay, and every remaining
\* transaction references existing accounts.
C26_DeleteAccountEffect ==
  [][\A u \in Callers, id \in AccountInputs :
       (deleteBankAccount(u, id)
          /\ \E a \in Visible(bank_accounts, u) : a.id = id)
       => /\ bank_accounts' = {a \in bank_accounts : a.id # id}
          /\ transactions' =
               {[t EXCEPT !.transfer_to_account_id = IF @ = id THEN NULL ELSE @] :
                  t \in {t \in transactions : t.bank_account_id # id}}
          /\ categories' = categories
          /\ \A b \in AccountIds \ {id} :
               SumAmounts({t \in transactions' : t.bank_account_id = b})
                 = SumAmounts({t \in transactions : t.bank_account_id = b})
          /\ \A t \in transactions' :
               /\ \E a \in bank_accounts' : a.id = t.bank_account_id
               /\ t.transfer_to_account_id # NULL
                    => \E a \in bank_accounts' : a.id = t.transfer_to_account_id]_vars

\* An account that was the destination of a transfer has been deleted: the
\* half on the other account is left, pointing to no account.
C26_Witness ==
  /\ resp.op = "deleteBankAccount"
  /\ Cardinality(bank_accounts) = 2
  /\ \E t \in transactions :
       /\ t.transfer_to_account_id = NULL
       /\ t.amount < 0
       /\ \E a \in bank_accounts : a.id = t.bank_account_id

====
